---- MODULE Spec2Model ----
(***************************************************************************)
(* Model of the ROM preview subsystem (rom_preview.cpp) of Main_MiSTer and *)
(* of the parts of the ROM catalog (rom_catalog.cpp) it calls into.        *)
(*                                                                         *)
(* Processes: the caller's thread (Main) and the background threads that   *)
(* rom_preview_fetch_async creates with pthread_create.  Every function    *)
(* that touches shared state (g_current_preview, the fetch_* statics, the  *)
(* preview cache files) is split into steps at its shared reads and writes *)
(* so that the interleavings of the real threads are interleavings of the  *)
(* model.                                                                  *)
(***************************************************************************)
EXTENDS Integers, Sequences, FiniteSets, TLC

\* ------------------------------------------------------------------ bounds
\* Number of background threads that may be created in one behaviour.
MaxThreads == 2
\* Number of images imlib may hand out in one behaviour.
MaxImages == 2
\* Number of entries the store may hold: a walk adds no entry beyond it.
MaxRoms == 4
\* Number of registry, scan and filter operations in one behaviour.
MaxOps == 4
\* Number of the operations of one behaviour, counted from its first, that
\* may meet a directory of many files.
MaxRuns == 2
\* Largest number of lines OsdGetSize reports for the list.
MaxPage == 4
\* Largest view the cursor is moved over on its own.
MaxView == 8

\* ------------------------------------------------------- program constants
\* rom_catalog.h: the number of slots of the station registry.
ROM_MAX_STATIONS == 32
\* match_extension: the number of characters of an extension it compares.
EXT_COMPARED == 8
\* rom_catalog_init: the number of entries the store is first allocated for.
INITIAL_CAPACITY == 1024
\* rom_catalog.h: the most entries a station is meant to have.
ROM_MAX_PER_STATION == 4096
\* rom_catalog.h: the most entries the catalog is meant to hold.
ROM_MAX_TOTAL == 32768
\* The three remote thumbnail categories, in the order the code tries them.
Categories == << "Named_Boxarts", "Named_Snaps", "Named_Titles" >>

\* The size of search_filter, terminating zero included.
SEARCH_FILTER_LEN == 256

\* The scroll modes of rom_browse_scan.
SCANF_INIT == "init"
SCANF_END == "end"
SCANF_NEXT == "next"
SCANF_PREV == "prev"
SCANF_NEXT_PAGE == "next_page"
SCANF_PREV_PAGE == "prev_page"

ScanModes ==
  { SCANF_INIT, SCANF_END, SCANF_NEXT, SCANF_PREV, SCANF_NEXT_PAGE,
    SCANF_PREV_PAGE }

\* rom_sort_mode_t
ROM_SORT_NAME_ASC == "name_asc"
ROM_SORT_NAME_DESC == "name_desc"
ROM_SORT_STATION_ASC == "station_asc"
ROM_SORT_STATION_DESC == "station_desc"
ROM_SORT_DATE_ASC == "date_asc"
ROM_SORT_DATE_DESC == "date_desc"
ROM_SORT_SIZE_ASC == "size_asc"
ROM_SORT_SIZE_DESC == "size_desc"

SortModes ==
  { ROM_SORT_NAME_ASC, ROM_SORT_NAME_DESC, ROM_SORT_STATION_ASC,
    ROM_SORT_STATION_DESC, ROM_SORT_DATE_ASC, ROM_SORT_DATE_DESC,
    ROM_SORT_SIZE_ASC, ROM_SORT_SIZE_DESC }

\* preview_status_t
PREVIEW_STATUS_NONE == "none"
PREVIEW_STATUS_LOADING == "loading"
PREVIEW_STATUS_READY == "ready"
PREVIEW_STATUS_NOT_FOUND == "not_found"
PREVIEW_STATUS_ERROR == "error"
PREVIEW_STATUS_NO_INTERNET == "no_internet"

PreviewStatus ==
  { PREVIEW_STATUS_NONE, PREVIEW_STATUS_LOADING, PREVIEW_STATUS_READY,
    PREVIEW_STATUS_NOT_FOUND, PREVIEW_STATUS_ERROR, PREVIEW_STATUS_NO_INTERNET }

\* The outcomes of a request: every status but none and loading.
TerminalStatus ==
  { PREVIEW_STATUS_READY, PREVIEW_STATUS_NOT_FOUND, PREVIEW_STATUS_ERROR,
    PREVIEW_STATUS_NO_INTERNET }

\* The directories a station's rom_path can name.  Nothing exists under n.
Paths == { "p", "q", "n" }

\* What the walk of each directory meets, in the order readdir returns it:
\* a subdirectory that is opened, or a file with a matching extension, under
\* its display name.  File c of p lies in the subdirectory d.  The directory
\* m, which no caller of rom_station_add names, holds one subdirectory.
Walk ==
  [d \in Paths \cup { "m" } |->
     CASE d = "p" -> << [dir |-> FALSE, name |-> "a"],
                        [dir |-> TRUE, name |-> "d"],
                        [dir |-> FALSE, name |-> "c"] >>
       [] d = "q" -> << [dir |-> FALSE, name |-> "b"] >>
       [] d = "m" -> << [dir |-> TRUE, name |-> "d"] >>
       [] OTHER -> << >>]

\* The display names of the files a complete walk of each directory finds.
Tree ==
  [d \in Paths |->
     LET files == SelectSeq(Walk[d], LAMBDA e : ~e.dir)
     IN [k \in 1 .. Len(files) |-> files[k].name]]

\* add_rom_entry, lines 362-376: whether a preview image is found under the
\* entry's display name.
HasPreviewFile(name) == name = "a"

\* uint32_t: a 32-bit value is written as its two 16-bit halves, hi and lo,
\* each below Half.
Half == 65536

U32(hi, lo) == [hi |-> hi, lo |-> lo]

\* a - b on uint32_t: the difference modulo 2^32.
Sub32(a, b) ==
  LET lo == a.lo - b.lo
      borrow == IF lo < 0 THEN 1 ELSE 0
  IN U32((a.hi - b.hi - borrow) % Half, lo % Half)

\* The int a uint32_t converts to: values from 2^31 on become negative.
ToInt(x) ==
  (IF x.hi >= Half \div 2 THEN x.hi - Half ELSE x.hi) * Half + x.lo

\* The size and modification time stat reports for each file, as add_rom_entry
\* stores them in the uint32_t fields size and date.
FileStat(name) ==
  CASE name = "a" -> [size |-> U32(0, 2), date |-> U32(0, 1)]
    [] name = "c" -> [size |-> U32(0, 1), date |-> U32(0, 3)]
    [] OTHER -> [size |-> U32(0, 3), date |-> U32(0, 2)]

\* add_rom_entry, lines 351-379: the entry made of a file found under dir
\* for the station whose record holds id sid.
Entry(name, sid, dir) ==
  [name |-> name, path |-> << dir, name >>, station_id |-> sid,
   has_preview |-> HasPreviewFile(name),
   size |-> FileStat(name).size, date |-> FileStat(name).date]

\* The core_path a caller registers with each directory: none for q and n.
CoreOf(dir) == IF dir = "p" THEN "k" ELSE ""

\* The display names written out, character by character: a is "Ab", c is
\* "ba" and b is "B".
Chars ==
  [n \in { "a", "b", "c" } |->
     CASE n = "a" -> << "A", "b" >>
       [] n = "c" -> << "b", "a" >>
       [] OTHER -> << "B" >>]

\* tolower on the characters the names and the search texts are made of,
\* as the rank of the lower-case letter in the alphabet.
ToLower(ch) == IF ch \in { "A", "a" } THEN 1 ELSE 2

\* The texts the caller searches for: none, and texts that extend others by
\* one character.
Texts ==
  { << >>, << "a" >>, << "B" >>, << "a", "B" >>, << "b", "A" >>,
    << "b", "b" >> }

\* The entries (rom_entry_t) of the Entry Store in the initial state, after
\* station 0 (rom_path p) and station 1 (rom_path q) were added and scanned in
\* this order.  A pointer to an entry is its index in the store; index 0
\* stands for a NULL pointer.
Roms ==
  << Entry("a", 0, "p"), Entry("c", 0, "p"), Entry("b", 1, "q") >>

NullRom == 0

\* The pointers the caller passes to the preview functions directly: NULL and
\* the first entry.  The other entries are reached through the batch fetch.
RomArgs == { NullRom, 1 }

\* The registry slots the entries refer to.  The other slots, up to
\* ROM_MAX_STATIONS, hold enabled stations without entries that no operation
\* of the model names.
StationIds == { Roms[r].station_id : r \in 1 .. Len(Roms) }

\* ---------------------------------------------------------------- processes
Main == 0
Threads == 1 .. MaxThreads
Procs == 0 .. MaxThreads
Images == 1 .. MaxImages

VARIABLES
  stations,           \* g_rom_catalog.stations[i]: id, enabled, rom_count,
                      \*   rom_path
  roms,               \* g_rom_catalog.roms[0 .. rom_count-1]
  rom_capacity,       \* g_rom_catalog.rom_capacity
  roms_size,          \* entries the block g_rom_catalog.roms points at has
                      \*   room for (0 for NULL)
  initialized,        \* g_rom_catalog.initialized
  station_count,      \* g_rom_catalog.station_count
  saved,              \* rom_stations.cfg: the stations array last saved
  filtered_roms,      \* static rom_entry_t **filtered_roms (store indices)
  browse_station_filter, \* static int browse_station_filter (-1 = all)
  search_filter,      \* static char search_filter[256], its characters
  iFirstEntry,        \* static int iFirstEntry
  iSelectedEntry,     \* static int iSelectedEntry
  osd_size,           \* what OsdGetSize() returns
  scan,               \* rom_scan_station / rom_scan_all: arguments and locals
  scan_cancel_flag,   \* static volatile int scan_cancel_flag
  scan_progress,      \* g_rom_catalog.scan_progress
  matching,           \* match_extension: its arguments and what it returned
  ops,                \* registry, scan and filter operations begun so far
  batch_cancel,       \* static volatile int batch_cancel
  batch,              \* rom_preview_batch_fetch: its arguments and locals
  batch_log,          \* what the batch in progress did, in order
  status,             \* g_current_preview.status
  image_data,         \* g_current_preview.image_data (0 = NULL)
  rom_name,           \* g_current_preview.rom_name
  station_id,         \* g_current_preview.station_id
  heap,               \* imlib images: unalloc / live / freed / freed2
  cache,              \* <cache>/<short_name>/<name>.png per entry
  fetch_in_progress,  \* static volatile int fetch_in_progress
  fetch_cancel,       \* static volatile int fetch_cancel
  fetch_thread,       \* static pthread_t fetch_thread (0 = never created)
  pc,                 \* position of each process
  stk,                \* return addresses of each process
  arg,                \* the rom argument each process works on
  log,                \* probe and download_file results of this fetch
  ret,                \* value returned by the last function that returned
  lastOp,             \* the public function Main called last
  tried,              \* load_local in progress: the candidates it examined
  sole                \* no preview call since the last thread launch

slot == << status, image_data, rom_name, station_id >>
fetchv == << fetch_in_progress, fetch_cancel, fetch_thread >>
ctl == << pc, stk, arg >>
hist == << log, ret, lastOp, tried, sole >>
filterv == << browse_station_filter, search_filter >>
cursor == << iFirstEntry, iSelectedEntry, osd_size >>
view == << filtered_roms, filterv, cursor >>
scanctl == << scan_cancel_flag, scan_progress, matching >>
alloc == << rom_capacity, roms_size, initialized >>
catalog ==
  << stations, roms, alloc, station_count, saved, view, scan, scanctl, ops >>
batchv == << batch_cancel, batch, batch_log >>
vars == << catalog, batchv, slot, heap, cache, fetchv, ctl, hist >>

\* ----------------------------------------------------------------- helpers
\* The first slot above the tracked ones.  The slots from it on are handled
\* alike and hold one record, kept under this index.
OtherSlots == Cardinality(StationIds)
Slots == StationIds \cup { OtherSlots }

\* g_rom_catalog.stations[i].enabled, for every slot of the registry.
SlotEnabled(st, i) ==
  st[IF i \in StationIds THEN i ELSE OtherSlots].enabled

\* rom_station_get: NULL unless the id is in range and the slot is enabled.
rom_station_get(id) ==
  /\ id < ROM_MAX_STATIONS
  /\ SlotEnabled(stations, id)

\* A slot of the registry after memset cleared it.
NoStation ==
  [id |-> 0, enabled |-> FALSE, rom_count |-> 0, rom_path |-> "",
   core_path |-> ""]

LiveImages == { i \in Images : heap[i] = "live" }
AllocatedImages == { i \in Images : heap[i] # "unalloc" }

\* The handle imlib returns for the next successful load.
NewImage == Cardinality(AllocatedImages) + 1


\* Return from the current function of p with value v.
Return(p, v) ==
  /\ pc' = [pc EXCEPT ![p] = Head(stk[p])]
  /\ stk' = [stk EXCEPT ![p] = Tail(stk[p])]
  /\ ret' = [ret EXCEPT ![p] = v]

Goto(p, l) ==
  /\ pc' = [pc EXCEPT ![p] = l]
  /\ UNCHANGED << stk, ret >>

\* Call a function whose first step is l, to come back at back.
Call(p, l, back) ==
  /\ pc' = [pc EXCEPT ![p] = l]
  /\ stk' = [stk EXCEPT ![p] = << back >> \o stk[p]]
  /\ UNCHANGED ret

\* The locals of rom_scan_station and rom_scan_all before their first call.
\* done lists the stations rom_scan_all has scanned, with their counts.
NoScan ==
  [station_id |-> 0, todo |-> << >>, i |-> 0, total |-> 0, done |-> << >>]

\* The arguments and the result of match_extension before any call.
NoMatch == [filename |-> << >>, extensions |-> << >>, result |-> -1]

\* The locals of rom_preview_batch_fetch before its first call.
NoBatch ==
  [station_id |-> 0, cb |-> FALSE, total |-> 0, current |-> 0,
   downloaded |-> 0, i |-> 1]

\* The rom_path of slot i when the tracked slots have the directories dirs:
\* nothing lies under the rom_path of the slots above them.
DirOf(dirs, i) == IF i \in StationIds THEN dirs[i] ELSE "n"

\* The state after the stations were added (each add saved the registry) and
\* then scanned: every slot is enabled, the store holds Roms, and nothing of
\* the preview subsystem has run.
ConstructedOver(rs, dirs) ==
  /\ stations = [i \in Slots |->
                   [id |-> i, enabled |-> TRUE,
                    rom_count |-> Cardinality({ r \in 1 .. Len(rs) :
                                                 rs[r].station_id = i }),
                    rom_path |-> DirOf(dirs, i),
                    core_path |-> CoreOf(DirOf(dirs, i))]]
  /\ roms = rs
  /\ rom_capacity = INITIAL_CAPACITY
  /\ roms_size = INITIAL_CAPACITY
  /\ initialized = 1
  /\ station_count = ROM_MAX_STATIONS
  /\ saved = [i \in Slots |->
                [id |-> i, enabled |-> TRUE, rom_count |-> 0,
                 rom_path |-> DirOf(dirs, i),
                 core_path |-> CoreOf(DirOf(dirs, i))]]
  /\ filtered_roms = [j \in 1 .. Len(rs) |-> j]
  /\ browse_station_filter = -1
  /\ search_filter = << >>
  /\ iFirstEntry = 0
  /\ iSelectedEntry = 0
  /\ scan = NoScan
  /\ scan_cancel_flag = 0
  /\ scan_progress = 0
  /\ ops = 0
  /\ batch_cancel = 0
  /\ batch = NoBatch
  /\ batch_log = << >>
  /\ status = PREVIEW_STATUS_NONE
  /\ image_data = 0
  /\ rom_name = ""
  /\ station_id = 0
  /\ heap = [i \in Images |-> "unalloc"]
  /\ cache = [r \in 1 .. Len(Roms) |-> "absent"]
  /\ fetch_in_progress = 0
  /\ fetch_cancel = 0
  /\ fetch_thread = 0
  /\ pc = [p \in Procs |-> IF p = Main THEN "idle" ELSE "unborn"]
  /\ stk = [p \in Procs |-> << >>]
  /\ arg = [p \in Procs |-> NullRom]
  /\ log = [p \in Procs |-> << >>]
  /\ ret = [p \in Procs |-> 0]
  /\ lastOp = "none"
  /\ tried = [p \in Procs |-> << >>]
  /\ sole = FALSE

\* The directories the stations were added with.
RegisteredDirs == [i \in StationIds |-> IF i = 0 THEN "p" ELSE "q"]

\* The state after stations added with the directories p and q were scanned
\* and the store holds rs.
ConstructedWith(rs) == ConstructedOver(rs, RegisteredDirs)

\* The state after the registered stations were scanned.
Constructed == ConstructedWith(Roms)

Init == Constructed /\ osd_size = MaxPage /\ matching = NoMatch

\* The processes that may still load an image in the function they are in:
\* in rom_preview_load_local before its load, in rom_preview_fetch_online,
\* in rom_preview_fetch_async, or a thread that has not tested the cancel
\* flag yet.
MayLoad(p) ==
  \/ pc[p] \in { "ll_entry", "ll_load", "fo_entry", "fo_probe", "fo_wget",
                 "fo_check_ok", "fo_check_fail", "fa_check", "fa_join",
                 "fa_reset", "fa_mark", "fa_loading", "fa_create", "t_start" }
  \/ \E i \in 1 .. Len(stk[p]) : stk[p][i] = "ll_load"

\* ------------------------------------------------------- rom_preview_clear
\* Lines 412-416: free the image the slot points to, if any.  Freeing a
\* handle that is no longer live is a double free.
ClearFree(p) ==
  /\ pc[p] = "cl_free"
  /\ heap' = IF image_data # 0
               THEN [heap EXCEPT ![image_data] =
                       IF @ = "live" THEN "freed" ELSE "freed2"]
               ELSE heap
  /\ Goto(p, "cl_reset")
  /\ UNCHANGED << catalog, batchv, slot, cache, fetchv, arg, log, lastOp, tried, sole >>

\* Lines 418-419: memset the slot and set status none.
ClearReset(p) ==
  /\ pc[p] = "cl_reset"
  /\ image_data' = 0
  /\ rom_name' = ""
  /\ station_id' = 0
  /\ status' = PREVIEW_STATUS_NONE
  /\ Return(p, 0)
  /\ UNCHANGED << catalog, batchv, heap, cache, fetchv, arg, log, lastOp, tried, sole >>

\* Mutant of LoadEntry: the call of rom_preview_clear() is left out.
LoadEntryNoClear(p) ==
  /\ pc[p] = "ll_entry"
  /\ IF arg[p] = NullRom
       THEN Return(p, -1)
       ELSE Goto(p, "ll_load")
  /\ UNCHANGED << catalog, batchv, slot, heap, cache, fetchv, arg, log, lastOp, tried, sole >>

\* -------------------------------------------------- rom_preview_load_local
\* Lines 85-87: NULL check, then rom_preview_clear().
LoadEntry(p) ==
  /\ pc[p] = "ll_entry"
  /\ IF arg[p] = NullRom
       THEN Return(p, -1)
       ELSE Call(p, "cl_free", "ll_load")
  /\ UNCHANGED << catalog, batchv, slot, heap, cache, fetchv, arg, log, lastOp, tried, sole >>

\* The candidates of rom_preview_load_local, in the order it tries them:
\* 1 the entry's recorded preview path (lines 90-104), then the three
\* preview_dirs formats (lines 108-137): 2 <cache>/<station>/<name>.png,
\* 3 <cache>/<station>/<name>.jpg, 4 <cache>/<station>.png.
NumCandidates == 4

\* Whether candidate k of entry r can load, given what the files outside
\* the program's control hold (ext: candidate -> BOOLEAN).  Candidate 1 is
\* tried only when has_preview is set; candidate 2 is the cache file the
\* fetch writes, unless the station is gone and the directory is "unknown".
CandidateLoads(r, k, ext) ==
  CASE k = 1 -> roms[r].has_preview /\ ext[1]
    [] k = 2 -> IF rom_station_get(roms[r].station_id)
                  THEN cache[r] = "good"
                  ELSE ext[2]
    [] OTHER -> ext[k]

\* Mutant of TryCandidates: the candidates are examined from the last one
\* down.
TryCandidatesBackwards(r, ext, k) ==
  LET RECURSIVE Down(_)
      Down(j) ==
        IF j < 1 \/ (j = 1 /\ ~roms[r].has_preview) THEN << >>
        ELSE IF CandidateLoads(r, j, ext)
          THEN << [candidate |-> j, parsed |-> TRUE] >>
          ELSE << [candidate |-> j, parsed |-> FALSE] >> \o Down(j - 1)
  IN Down(NumCandidates)

\* The candidates rom_preview_load_local examines from candidate k on, with
\* what each gave: the recorded path only when has_preview is set (line 90),
\* then the preview_dirs loop (line 118), which returns at the first image
\* that loads (lines 96-103, 124-135).
RECURSIVE TryCandidates(_, _, _)
TryCandidates(r, ext, k) ==
  IF k > NumCandidates THEN << >>
  ELSE IF k = 1 /\ ~roms[r].has_preview THEN TryCandidates(r, ext, k + 1)
  ELSE IF CandidateLoads(r, k, ext)
    THEN << [candidate |-> k, parsed |-> TRUE] >>
    ELSE << [candidate |-> k, parsed |-> FALSE] >>
           \o TryCandidates(r, ext, k + 1)

\* Lines 90-97 / 118-130: load the first candidate that parses and store
\* the handle in the slot; go to line 139 if none does.
LoadImage(p) ==
  /\ pc[p] = "ll_load"
  /\ \E ext \in [1 .. NumCandidates -> BOOLEAN] :
       LET t == TryCandidates(arg[p], ext, 1) IN
         /\ tried' = [tried EXCEPT ![p] = t]
         /\ IF t # << >> /\ t[Len(t)].parsed
              THEN /\ image_data' = NewImage
                   /\ heap' = [heap EXCEPT ![NewImage] = "live"]
                   /\ Goto(p, "ll_set")
              ELSE /\ UNCHANGED << image_data, heap >>
                   /\ Goto(p, "ll_nf")
  /\ UNCHANGED << catalog, batchv, status, rom_name, station_id, cache, fetchv >>
  /\ UNCHANGED << arg, log, lastOp, sole >>

\* Lines 99-102 / 131-134: status ready, owner name and station.
LoadSetReady(p) ==
  /\ pc[p] = "ll_set"
  /\ status' = PREVIEW_STATUS_READY
  /\ rom_name' = roms[arg[p]].name
  /\ station_id' = roms[arg[p]].station_id
  /\ tried' = [tried EXCEPT ![p] = << >>]
  /\ Return(p, 0)
  /\ UNCHANGED << catalog, batchv, image_data, heap, cache, fetchv >>
  /\ UNCHANGED << arg, log, lastOp, sole >>

\* Lines 139-140: nothing loaded.
LoadNotFound(p) ==
  /\ pc[p] = "ll_nf"
  /\ status' = PREVIEW_STATUS_NOT_FOUND
  /\ tried' = [tried EXCEPT ![p] = << >>]
  /\ Return(p, -1)
  /\ UNCHANGED << catalog, batchv, image_data, rom_name, station_id, heap, cache >>
  /\ UNCHANGED << fetchv, arg, log, lastOp, sole >>

\* ------------------------------------------------ rom_preview_fetch_online
\* What a fetch records of the reachability probe and of a download_file call.
ProbeEvent(online) == [ev |-> "probe", category |-> "", ok |-> online]
DownloadEvent(c, success) == [ev |-> "download", category |-> c, ok |-> success]

Downloads(p) == SelectSeq(log[p], LAMBDA e : e.ev = "download")

\* Lines 239-242: NULL check and station lookup.  Neither early return
\* writes the status.
FetchEntry(p) ==
  /\ pc[p] = "fo_entry"
  /\ IF arg[p] = NullRom \/ ~rom_station_get(roms[arg[p]].station_id)
       THEN Return(p, -1)
       ELSE Goto(p, "fo_probe")
  /\ UNCHANGED << catalog, batchv, slot, heap, cache, fetchv, arg, log, lastOp, tried, sole >>

\* Mutant of FetchProbe: the return after a failed probe is left out.
FetchProbeNoReturn(p) ==
  /\ pc[p] = "fo_probe"
  /\ \E online \in BOOLEAN :
       /\ log' = [log EXCEPT ![p] = Append(@, ProbeEvent(online))]
       /\ status' = IF online THEN PREVIEW_STATUS_LOADING
                              ELSE PREVIEW_STATUS_NO_INTERNET
       /\ Goto(p, "fo_wget")
  /\ UNCHANGED << catalog, batchv, image_data, rom_name, station_id, heap, cache >>
  /\ UNCHANGED << fetchv, arg, lastOp, tried, sole >>

\* Lines 245-250: rom_preview_check_internet (getaddrinfo succeeds or not).
\* Failure: status no_internet, return -1.  Success: status loading.
FetchProbe(p) ==
  /\ pc[p] = "fo_probe"
  /\ \E online \in BOOLEAN :
       /\ log' = [log EXCEPT ![p] = Append(@, ProbeEvent(online))]
       /\ IF online
            THEN /\ status' = PREVIEW_STATUS_LOADING
                 /\ Goto(p, "fo_wget")
            ELSE /\ status' = PREVIEW_STATUS_NO_INTERNET
                 /\ Return(p, -1)
  /\ UNCHANGED << catalog, batchv, image_data, rom_name, station_id, heap, cache >>
  /\ UNCHANGED << fetchv, arg, lastOp, tried, sole >>

\* download_file, lines 222-227: system("wget ... -O save_path url") for the
\* next category.  wget exits 0 having written the file (an image, or
\* something imlib cannot parse), or exits non-zero leaving an empty file
\* or not touching it.
FetchWget(p) ==
  /\ pc[p] = "fo_wget"
  /\ \E out \in { "good", "bad", "fail_empty", "fail_untouched" } :
       /\ cache' = CASE out = "good" -> [cache EXCEPT ![arg[p]] = "good"]
                     [] out = "bad" -> [cache EXCEPT ![arg[p]] = "bad"]
                     [] out = "fail_empty" -> [cache EXCEPT ![arg[p]] = "bad"]
                     [] OTHER -> cache
       /\ Goto(p, IF out \in { "good", "bad" }
                    THEN "fo_check_ok" ELSE "fo_check_fail")
  /\ UNCHANGED << catalog, batchv, slot, heap, fetchv, arg, log, lastOp, tried, sole >>

\* Mutant of FetchCheck: a failed download is not unlinked.
FetchCheckNoUnlink(p) ==
  /\ pc[p] \in { "fo_check_ok", "fo_check_fail" }
  /\ LET c == Categories[Len(Downloads(p)) + 1]
         success == pc[p] = "fo_check_ok" /\ cache[arg[p]] # "absent"
     IN
       /\ log' = [log EXCEPT ![p] = Append(@, DownloadEvent(c, success))]
       /\ Goto(p, IF success THEN "ll_entry"
                   ELSE IF Len(Downloads(p)) + 1 < Len(Categories)
                     THEN "fo_wget" ELSE "fo_nf")
  /\ UNCHANGED << catalog, batchv, slot, heap, cache, fetchv, arg, lastOp, tried, sole >>

\* download_file, lines 228-234, and the caller's test of its result
\* (lines 274, 284, 293): success if wget returned 0 and the file exists,
\* then return rom_preview_load_local(rom); otherwise unlink(save_path) and
\* go on with the next category, or to line 297 after the third.
FetchCheck(p) ==
  /\ pc[p] \in { "fo_check_ok", "fo_check_fail" }
  /\ LET c == Categories[Len(Downloads(p)) + 1]
         success == pc[p] = "fo_check_ok" /\ cache[arg[p]] # "absent"
     IN
       /\ log' = [log EXCEPT ![p] = Append(@, DownloadEvent(c, success))]
       /\ IF success
            THEN /\ Goto(p, "ll_entry")
                 /\ UNCHANGED cache
            ELSE /\ cache' = [cache EXCEPT ![arg[p]] = "absent"]
                 /\ Goto(p, IF Len(Downloads(p)) + 1 < Len(Categories)
                              THEN "fo_wget" ELSE "fo_nf")
  /\ UNCHANGED << catalog, batchv, slot, heap, fetchv, arg, lastOp, tried, sole >>

\* Lines 297-298: all three categories failed.
FetchNotFound(p) ==
  /\ pc[p] = "fo_nf"
  /\ status' = PREVIEW_STATUS_NOT_FOUND
  /\ Return(p, -1)
  /\ UNCHANGED << catalog, batchv, image_data, rom_name, station_id, heap, cache >>
  /\ UNCHANGED << fetchv, arg, log, lastOp, tried, sole >>

\* ------------------------------------------------------- fetch_thread_func
\* Mutant of ThreadStart: the cancel flag is not tested.
ThreadStartIgnoresCancel(t) ==
  /\ pc[t] = "t_start"
  /\ IF arg[t] # NullRom
       THEN Call(t, "fo_entry", "t_fin")
       ELSE Goto(t, "t_fin")
  /\ UNCHANGED << catalog, batchv, slot, heap, cache, fetchv, arg, log, lastOp, tried, sole >>

\* Lines 309-311: the cancel flag is tested once, at entry.
ThreadStart(t) ==
  /\ pc[t] = "t_start"
  /\ IF fetch_cancel = 0 /\ arg[t] # NullRom
       THEN Call(t, "fo_entry", "t_fin")
       ELSE Goto(t, "t_fin")
  /\ UNCHANGED << catalog, batchv, slot, heap, cache, fetchv, arg, log, lastOp, tried, sole >>

\* Mutant of ThreadFinish: the thread returns without clearing the flag.
ThreadFinishKeepsFlag(t) ==
  /\ pc[t] = "t_fin"
  /\ pc' = [pc EXCEPT ![t] = "exited"]
  /\ arg' = [arg EXCEPT ![t] = NullRom]
  /\ log' = [log EXCEPT ![t] = << >>]
  /\ ret' = [ret EXCEPT ![t] = 0]
  /\ UNCHANGED << catalog, batchv, slot, heap, cache, fetchv, stk, lastOp, tried, sole >>

\* Lines 313-314: fetch_in_progress = 0, and the thread function returns:
\* the thread can now be joined.  The result of fetch_online is dropped.
ThreadFinish(t) ==
  /\ pc[t] = "t_fin"
  /\ fetch_in_progress' = 0
  /\ pc' = [pc EXCEPT ![t] = "exited"]
  /\ arg' = [arg EXCEPT ![t] = NullRom]
  /\ log' = [log EXCEPT ![t] = << >>]
  /\ ret' = [ret EXCEPT ![t] = 0]
  /\ UNCHANGED << catalog, batchv, slot, heap, cache, fetch_cancel, fetch_thread >>
  /\ UNCHANGED << stk, lastOp, tried, sole >>

\* Mutant of AsyncCheck: the cancel flag is raised but the running thread is
\* not joined.
AsyncCheckNoJoin ==
  /\ pc[Main] = "fa_check"
  /\ fetch_cancel' = IF fetch_in_progress # 0 THEN 1 ELSE fetch_cancel
  /\ Goto(Main, "fa_reset")
  /\ UNCHANGED << catalog, batchv, slot, heap, cache, fetch_in_progress, fetch_thread >>
  /\ UNCHANGED << arg, log, lastOp, tried, sole >>

\* ------------------------------------------------- rom_preview_fetch_async
\* Lines 319-321: if a fetch is in progress, raise the cancel flag.
AsyncCheck ==
  /\ pc[Main] = "fa_check"
  /\ IF fetch_in_progress # 0
       THEN /\ fetch_cancel' = 1
            /\ Goto(Main, "fa_join")
       ELSE /\ UNCHANGED fetch_cancel
            /\ Goto(Main, "fa_reset")
  /\ UNCHANGED << catalog, batchv, slot, heap, cache, fetch_in_progress, fetch_thread >>
  /\ UNCHANGED << arg, log, lastOp, tried, sole >>

\* Line 322: pthread_join(fetch_thread) blocks until that thread has
\* returned from fetch_thread_func.
AsyncJoin ==
  /\ pc[Main] = "fa_join"
  /\ fetch_thread \in Threads
  /\ pc[fetch_thread] = "exited"
  /\ pc' = [pc EXCEPT ![fetch_thread] = "joined", ![Main] = "fa_reset"]
  /\ UNCHANGED << catalog, batchv, slot, heap, cache, fetchv, stk, arg, hist >>

\* Line 325: fetch_cancel = 0.
AsyncResetCancel ==
  /\ pc[Main] = "fa_reset"
  /\ fetch_cancel' = 0
  /\ Goto(Main, "fa_mark")
  /\ UNCHANGED << catalog, batchv, slot, heap, cache, fetch_in_progress, fetch_thread >>
  /\ UNCHANGED << arg, log, lastOp, tried, sole >>

\* Line 326: fetch_in_progress = 1.
AsyncMark ==
  /\ pc[Main] = "fa_mark"
  /\ fetch_in_progress' = 1
  /\ Goto(Main, "fa_loading")
  /\ UNCHANGED << catalog, batchv, slot, heap, cache, fetch_cancel, fetch_thread >>
  /\ UNCHANGED << arg, log, lastOp, tried, sole >>

\* Mutant of AsyncSetLoading: the status is left as it was.
AsyncKeepStatus ==
  /\ pc[Main] = "fa_loading"
  /\ Goto(Main, "fa_create")
  /\ UNCHANGED << catalog, batchv, slot, heap, cache, fetchv, arg, log, lastOp, tried, sole >>

\* Line 327: status loading, before the thread exists.
AsyncSetLoading ==
  /\ pc[Main] = "fa_loading"
  /\ status' = PREVIEW_STATUS_LOADING
  /\ Goto(Main, "fa_create")
  /\ UNCHANGED << catalog, batchv, image_data, rom_name, station_id, heap, cache >>
  /\ UNCHANGED << fetchv, arg, log, lastOp, tried, sole >>

\* The thread pthread_create starts: the lowest id not used yet.
NextThread == CHOOSE t \in Threads :
                /\ pc[t] = "unborn"
                /\ \A u \in Threads : pc[u] = "unborn" => t <= u

\* Lines 329-335: pthread_create starts fetch_thread_func(rom) and the
\* function returns 0; or it fails, and fetch_in_progress is reset, the
\* status becomes error and the function returns -1.
AsyncCreate ==
  /\ pc[Main] = "fa_create"
  /\ \E created \in BOOLEAN :
       IF created
         THEN /\ pc' = [pc EXCEPT ![NextThread] = "t_start",
                                  ![Main] = Head(stk[Main])]
              /\ stk' = [stk EXCEPT ![Main] = Tail(stk[Main])]
              /\ ret' = [ret EXCEPT ![Main] = 0]
              /\ arg' = [arg EXCEPT ![NextThread] = arg[Main]]
              /\ fetch_thread' = NextThread
              /\ sole' = TRUE
              /\ UNCHANGED << status, fetch_in_progress >>
         ELSE /\ fetch_in_progress' = 0
              /\ status' = PREVIEW_STATUS_ERROR
              /\ Return(Main, -1)
              /\ UNCHANGED << arg, fetch_thread, sole >>
  /\ UNCHANGED << catalog, batchv, image_data, rom_name, station_id, heap, cache >>
  /\ UNCHANGED << fetch_cancel, log, lastOp, tried >>

\* rom_preview_fetch_poll, line 340: 1 when no fetch is in progress.
rom_preview_fetch_poll == IF fetch_in_progress = 0 THEN 1 ELSE 0

\* ------------------------------------------------- calls made by the caller
\* A call that may load an image is made only while imlib has a handle left
\* for it and for every call already under way.
BeginOp(name, r, entry, loads) ==
  /\ pc[Main] = "idle"
  /\ loads => Cardinality(AllocatedImages)
                + Cardinality({ p \in Procs : MayLoad(p) }) < MaxImages
  /\ lastOp' = name
  /\ arg' = [arg EXCEPT ![Main] = r]
  /\ log' = [log EXCEPT ![Main] = << >>]
  /\ sole' = FALSE
  /\ Call(Main, entry, "idle")
  /\ UNCHANGED << catalog, batchv, slot, heap, cache, fetchv, tried >>

\* rom_preview_load_local(rom)
CallLoadLocal == \E r \in RomArgs : BeginOp("load_local", r, "ll_entry", TRUE)

\* rom_preview_fetch_online(rom)
CallFetchOnline ==
  \E r \in RomArgs : BeginOp("fetch_online", r, "fo_entry", TRUE)

\* rom_preview_clear()
CallClear == BeginOp("clear", NullRom, "cl_free", FALSE)

\* rom_preview_cleanup(), lines 57-60: calls rom_preview_clear().
CallCleanup == BeginOp("cleanup", NullRom, "cl_free", FALSE)

\* rom_preview_fetch_async(rom)
CallFetchAsync ==
  /\ \E t \in Threads : pc[t] = "unborn"
  /\ \E r \in RomArgs : BeginOp("fetch_async", r, "fa_check", TRUE)

\* rom_station_update(id, station) with a copy of the slot's record whose
\* enabled flag was flipped, for a station the caller passes entries of: the
\* record is copied into the slot.  No entry of the store is touched.
StationUpdate ==
  /\ pc[Main] = "idle"
  /\ \E id \in { Roms[r].station_id : r \in RomArgs \ { NullRom } },
        en \in BOOLEAN :
       /\ stations[id].enabled # en
       /\ stations' = [stations EXCEPT ![id].enabled = en]
       /\ saved' = stations'
  /\ UNCHANGED << roms, alloc, station_count, view, scan, batchv, slot, heap, cache >>
  /\ UNCHANGED << scanctl, ops, fetchv, ctl, hist >>

\* --------------------------------------------------------- rom_catalog_load
\* The number of enabled slots among all ROM_MAX_STATIONS, given the tracked
\* ones: the count rom_catalog_load recomputes (lines 219-224).
CountEnabled(st) ==
  (IF st[OtherSlots].enabled
     THEN ROM_MAX_STATIONS - Cardinality(StationIds)
     ELSE 0)
    + Cardinality({ i \in StationIds : st[i].enabled })

\* rom_catalog_init past its first line, lines 170-180: memset clears the
\* catalog, the capacity is set and the store allocated; initialized is set
\* when malloc returned a block (ok).  The statics of the view, of the
\* scanner and of the preview are not part of the catalog.
InitCatalog(ok) ==
  /\ roms' = << >>
  /\ rom_capacity' = INITIAL_CAPACITY
  /\ roms_size' = IF ok THEN INITIAL_CAPACITY ELSE 0
  /\ initialized' = IF ok THEN 1 ELSE 0
  /\ scan_progress' = 0
  /\ UNCHANGED << scan_cancel_flag, matching >>

\* rom_catalog_load, lines 209-227: a catalog that is not initialized is
\* initialized first, and -1 is returned if that fails; the stations array
\* is read back from rom_stations.cfg and the enabled slots are counted.
\* The store of an initialized catalog is not touched.
CatalogLoad ==
  /\ pc[Main] = "idle"
  /\ IF initialized # 0
       THEN /\ stations' = saved
            /\ station_count' = CountEnabled(saved)
            /\ UNCHANGED << roms, alloc, scanctl >>
       ELSE \/ /\ InitCatalog(TRUE)
               /\ stations' = saved
               /\ station_count' = CountEnabled(saved)
            \/ /\ InitCatalog(FALSE)
               /\ stations' = [i \in Slots |-> NoStation]
               /\ station_count' = 0
  /\ UNCHANGED << saved, view, scan, batchv, slot, heap, cache, fetchv >>
  /\ UNCHANGED << ops, ctl, hist >>

\* ------------------------------------------------- rom_preview_batch_fetch
\* rom_get_count_for_station, lines 882-886.
rom_get_count_for_station(id) ==
  IF rom_station_get(id) THEN stations[id].rom_count ELSE 0

\* rom_preview_cache_exists, lines 431-443: the entry's cache file exists,
\* whatever it holds.
rom_preview_cache_exists(r) ==
  /\ r # NullRom
  /\ rom_station_get(roms[r].station_id)
  /\ cache[r] # "absent"

\* What a batch records: a call of rom_preview_fetch_online for an entry,
\* what that call returned, a call of progress_cb, and a call of
\* rom_preview_batch_cancel.
FetchEvent(r) == [ev |-> "fetch", rom |-> r]
ResultEvent(r, success) == [ev |-> "result", rom |-> r, ok |-> success]
ProgressEvent(r, cur, tot) ==
  [ev |-> "progress", rom |-> r, current |-> cur, total |-> tot]
CancelEvent == [ev |-> "cancel"]

\* progress_cb(current, total, rom->name), when a callback was given.
Progress(r, cur, tot) ==
  IF batch.cb THEN << ProgressEvent(r, cur, tot) >> ELSE << >>

\* rom_preview_batch_fetch(station_id, progress_cb)
CallBatchFetch ==
  /\ pc[Main] = "idle"
  /\ \E id \in StationIds \cup { ROM_MAX_STATIONS }, cb \in BOOLEAN :
       batch' = [NoBatch EXCEPT !.station_id = id, !.cb = cb]
  /\ lastOp' = "batch_fetch"
  /\ arg' = [arg EXCEPT ![Main] = NullRom]
  /\ log' = [log EXCEPT ![Main] = << >>]
  /\ sole' = FALSE
  /\ Call(Main, "bf_reset", "idle")
  /\ UNCHANGED << catalog, batch_cancel, batch_log, slot, heap, cache >>
  /\ UNCHANGED << fetchv, tried >>

\* Lines 501-509: the cancel flag is cleared, the station is looked up (an
\* unknown or disabled one ends the call with 0) and its rom_count is read
\* as the total.
BatchBegin ==
  /\ pc[Main] = "bf_reset"
  /\ batch_cancel' = 0
  /\ batch_log' = << >>
  /\ IF rom_station_get(batch.station_id)
       THEN /\ batch' = [batch EXCEPT
                           !.total = rom_get_count_for_station(batch.station_id)]
            /\ Goto(Main, "bf_loop")
       ELSE /\ UNCHANGED batch
            /\ Return(Main, 0)
  /\ UNCHANGED << catalog, slot, heap, cache, fetchv, arg, log, lastOp >>
  /\ UNCHANGED << tried, sole >>

\* Mutant of BatchLoop: the cache is not consulted, every entry of the
\* station is fetched.
BatchLoopNoCacheCheck ==
  /\ pc[Main] = "bf_loop"
  /\ LET i == batch.i IN
       IF i > Len(roms) \/ batch_cancel # 0
         THEN /\ Return(Main, batch.downloaded)
              /\ UNCHANGED << batch, batch_log, arg, log >>
         ELSE IF roms[i].station_id # batch.station_id
           THEN /\ batch' = [batch EXCEPT !.i = i + 1]
                /\ Goto(Main, "bf_loop")
                /\ UNCHANGED << batch_log, arg, log >>
           ELSE /\ Cardinality(AllocatedImages) < MaxImages
                /\ batch' = [batch EXCEPT !.current = @ + 1]
                /\ batch_log' = Append(batch_log, FetchEvent(i))
                /\ arg' = [arg EXCEPT ![Main] = i]
                /\ log' = [log EXCEPT ![Main] = << >>]
                /\ Call(Main, "fo_entry", "bf_after")
  /\ UNCHANGED << catalog, batch_cancel, slot, heap, cache, fetchv >>
  /\ UNCHANGED << lastOp, tried, sole >>

\* Mutant of BatchLoop: the cancel flag is not tested.
BatchLoopIgnoresCancel ==
  /\ pc[Main] = "bf_loop"
  /\ LET i == batch.i IN
       IF i > Len(roms)
         THEN /\ Return(Main, batch.downloaded)
              /\ UNCHANGED << batch, batch_log, arg, log >>
         ELSE IF roms[i].station_id # batch.station_id
           THEN /\ batch' = [batch EXCEPT !.i = i + 1]
                /\ Goto(Main, "bf_loop")
                /\ UNCHANGED << batch_log, arg, log >>
           ELSE IF rom_preview_cache_exists(i)
             THEN /\ batch' = [batch EXCEPT !.current = @ + 1, !.i = i + 1]
                  /\ batch_log' = batch_log
                       \o Progress(i, batch.current + 1, batch.total)
                  /\ Goto(Main, "bf_loop")
                  /\ UNCHANGED << arg, log >>
             ELSE /\ Cardinality(AllocatedImages) < MaxImages
                  /\ batch' = [batch EXCEPT !.current = @ + 1]
                  /\ batch_log' = Append(batch_log, FetchEvent(i))
                  /\ arg' = [arg EXCEPT ![Main] = i]
                  /\ log' = [log EXCEPT ![Main] = << >>]
                  /\ Call(Main, "fo_entry", "bf_after")
  /\ UNCHANGED << catalog, batch_cancel, slot, heap, cache, fetchv >>
  /\ UNCHANGED << lastOp, tried, sole >>

\* Lines 512-525: one pass of the loop up to the call of fetch_online.  The
\* loop ends when the store is exhausted or the cancel flag is set; an entry
\* of another station is skipped; an entry of the station is counted, and
\* either its cache file exists and progress is reported, or
\* rom_preview_fetch_online(rom) is called.  A fetch is started only while
\* imlib has a handle left for it.
BatchLoop ==
  /\ pc[Main] = "bf_loop"
  /\ LET i == batch.i IN
       IF i > Len(roms) \/ batch_cancel # 0
         THEN /\ Return(Main, batch.downloaded)
              /\ UNCHANGED << batch, batch_log, arg, log >>
         ELSE IF roms[i].station_id # batch.station_id
           THEN /\ batch' = [batch EXCEPT !.i = i + 1]
                /\ Goto(Main, "bf_loop")
                /\ UNCHANGED << batch_log, arg, log >>
           ELSE IF rom_preview_cache_exists(i)
             THEN /\ batch' = [batch EXCEPT !.current = @ + 1, !.i = i + 1]
                  /\ batch_log' = batch_log
                       \o Progress(i, batch.current + 1, batch.total)
                  /\ Goto(Main, "bf_loop")
                  /\ UNCHANGED << arg, log >>
             ELSE /\ Cardinality(AllocatedImages) < MaxImages
                  /\ batch' = [batch EXCEPT !.current = @ + 1]
                  /\ batch_log' = Append(batch_log, FetchEvent(i))
                  /\ arg' = [arg EXCEPT ![Main] = i]
                  /\ log' = [log EXCEPT ![Main] = << >>]
                  /\ Call(Main, "fo_entry", "bf_after")
  /\ UNCHANGED << catalog, batch_cancel, slot, heap, cache, fetchv >>
  /\ UNCHANGED << lastOp, tried, sole >>

\* Lines 526-534: a fetch that returned 0 is counted, progress is reported,
\* and after the delay the loop goes on with the next entry.
BatchAfter ==
  /\ pc[Main] = "bf_after"
  /\ batch' = [batch EXCEPT
                 !.downloaded = IF ret[Main] = 0 THEN @ + 1 ELSE @,
                 !.i = @ + 1]
  /\ batch_log' = Append(batch_log, ResultEvent(batch.i, ret[Main] = 0))
                    \o Progress(batch.i, batch.current, batch.total)
  /\ Goto(Main, "bf_loop")
  /\ UNCHANGED << catalog, batch_cancel, slot, heap, cache, fetchv >>
  /\ UNCHANGED << arg, log, lastOp, tried, sole >>

\* rom_preview_batch_cancel, lines 538-541, called from the progress callback
\* or from another thread at any moment: the flag is set.  A call that finds
\* the flag set changes nothing.
BatchCancel ==
  /\ batch_cancel = 0
  /\ batch_cancel' = 1
  /\ batch_log' = Append(batch_log, CancelEvent)
  /\ UNCHANGED << catalog, batch, slot, heap, cache, fetchv, ctl, hist >>

\* ------------------------------------------------------------ rom_catalog
\* The station ids a caller passes: the tracked slots and one out of range.
StationArgs == StationIds \cup { ROM_MAX_STATIONS }

\* The records (rom_station_t) a caller passes to rom_station_update.
StationRecords ==
  [id : StationIds, enabled : BOOLEAN, rom_count : 0 .. MaxRoms,
   rom_path : Paths, core_path : { CoreOf(d) : d \in Paths }]

\* One more operation of the registry, the scanner or the filter begins.
CountOp == ops < MaxOps /\ ops' = ops + 1

\* What the preview subsystem owns, which no catalog operation touches.
previewv == << batchv, slot, heap, cache, fetchv >>

\* An operation that runs to completion on the caller's thread returns v.
Returns(v) ==
  /\ ret' = [ret EXCEPT ![Main] = v]
  /\ UNCHANGED << pc, stk, arg, log, lastOp, tried, sole >>

\* The purge loop of rom_station_remove (lines 277-286) and rom_scan_station
\* (lines 426-435): the entries of the other stations are copied down, each
\* to the write index, in the order they are read, and the store ends at the
\* write index.
Purge(rs, id) == SelectSeq(rs, LAMBDA e : e.station_id # id)

\* rebuild_filtered_list, lines 500-530, with no search text: pointers to
\* the entries that pass the station filter, in store order.
\* strcasestr(hay, needle) on character sequences: needle occurs in hay at
\* some offset, letter case ignored.
strcasestr(hay, needle) ==
  \E off \in 0 .. (Len(hay) - Len(needle)) :
    \A k \in 1 .. Len(needle) : ToLower(hay[off + k]) = ToLower(needle[k])

FilteredList(rs, filter, text) ==
  SelectSeq([j \in 1 .. Len(rs) |-> j],
            LAMBDA j : /\ filter < 0 \/ rs[j].station_id = filter
                       /\ text = << >> \/ strcasestr(Chars[rs[j].name], text))

\* rebuild_filtered_list called on the store rs, its allocation succeeding.
Rebuild(rs) ==
  filtered_roms' = FilteredList(rs, browse_station_filter, search_filter)

\* rom_station_add, lines 239-269: the first slot that is not enabled is
\* cleared and filled in; -1 when every slot is enabled.  The caller adds
\* no station once the tracked slots are taken and one above them is free.
rom_station_add(path, core) ==
  /\ pc[Main] = "idle"
  /\ CountOp
  /\ LET free == { i \in 0 .. (ROM_MAX_STATIONS - 1) :
                     ~SlotEnabled(stations, i) }
     IN IF free = {}
          THEN /\ Returns(-1)
               /\ UNCHANGED << stations, station_count, saved >>
          ELSE LET new == CHOOSE i \in free : \A j \in free : i <= j
               IN /\ new \in StationIds
                  /\ stations' = [stations EXCEPT ![new] =
                                    [id |-> new, enabled |-> TRUE,
                                     rom_count |-> 0, rom_path |-> path,
                                     core_path |-> core]]
                  /\ station_count' = station_count + 1
                  /\ saved' = stations'
                  /\ Returns(new)
  /\ UNCHANGED << roms, alloc, view, scan, scanctl, previewv >>

StationAdd == \E path \in Paths : rom_station_add(path, CoreOf(path))

\* Mutant of rom_station_remove: the slot is disabled without purging its
\* entries.
RemoveWithoutPurge(id) ==
  /\ pc[Main] = "idle"
  /\ CountOp
  /\ IF id >= ROM_MAX_STATIONS \/ ~SlotEnabled(stations, id)
       THEN /\ Returns(-1)
            /\ UNCHANGED << stations, roms, alloc, station_count, saved, view >>
       ELSE /\ roms' = roms
            /\ stations' = [stations EXCEPT ![id].enabled = FALSE]
            /\ station_count' = station_count - 1
            /\ saved' = stations'
            /\ Rebuild(roms')
            /\ UNCHANGED << alloc, filterv, cursor >>
            /\ Returns(0)
  /\ UNCHANGED << scan, scanctl, previewv >>

\* rom_station_remove, lines 271-296: -1 for an id out of range or a slot
\* that is not enabled; otherwise the station's entries are purged, the slot
\* is disabled, the registry is saved and the view rebuilt.
rom_station_remove(id) ==
  /\ pc[Main] = "idle"
  /\ CountOp
  /\ IF id >= ROM_MAX_STATIONS \/ ~SlotEnabled(stations, id)
       THEN /\ Returns(-1)
            /\ UNCHANGED << stations, roms, alloc, station_count, saved, view >>
       ELSE /\ roms' = Purge(roms, id)
            /\ stations' = [stations EXCEPT ![id].enabled = FALSE]
            /\ station_count' = station_count - 1
            /\ saved' = stations'
            /\ Rebuild(roms')
            /\ UNCHANGED << alloc, filterv, cursor >>
            /\ Returns(0)
  /\ UNCHANGED << scan, scanctl, previewv >>

StationRemove == \E id \in StationArgs : rom_station_remove(id)

\* rom_station_update, lines 298-306: -1 for an id out of range; otherwise
\* the record is copied over the slot, whatever the slot held, and the
\* registry is saved.
rom_station_update(id, rec) ==
  /\ pc[Main] = "idle"
  /\ CountOp
  /\ IF id >= ROM_MAX_STATIONS
       THEN /\ Returns(-1)
            /\ UNCHANGED << stations, saved >>
       ELSE /\ stations' = [stations EXCEPT ![id] = rec]
            /\ saved' = stations'
            /\ Returns(0)
  /\ UNCHANGED << roms, alloc, station_count, view, scan, scanctl, previewv >>

\* The caller edits a copy of the record it read from the slot: rom_path,
\* core_path and rom_count stay, id and enabled are the caller's.
StationUpdateRecord ==
  \E id \in StationArgs, rec \in StationRecords :
    /\ id \in StationIds => /\ rec.rom_path = stations[id].rom_path
                            /\ rec.core_path = stations[id].core_path
                            /\ rec.rom_count = stations[id].rom_count
    /\ rom_station_update(id, rec)

\* rom_catalog_init, lines 166-181: 0 at once for an initialized catalog;
\* otherwise the catalog is cleared and the store allocated, and the value
\* is 0, or -1 when malloc returns NULL.
CatalogInit ==
  /\ pc[Main] = "idle"
  /\ CountOp
  /\ IF initialized # 0
       THEN /\ Returns(0)
            /\ UNCHANGED << stations, roms, alloc, station_count, scanctl >>
       ELSE /\ stations' = [i \in Slots |-> NoStation]
            /\ station_count' = 0
            /\ \/ InitCatalog(TRUE) /\ Returns(0)
               \/ InitCatalog(FALSE) /\ Returns(-1)
  /\ UNCHANGED << saved, view, scan, previewv >>

\* rom_catalog_free, lines 183-196: the store and the array of the view are
\* freed, both pointers are set to NULL and the catalog is cleared.
\* filtered_count, the filters and the cursor are left as they were.
CatalogFree ==
  /\ pc[Main] = "idle"
  /\ CountOp
  /\ roms' = << >>
  /\ rom_capacity' = 0
  /\ roms_size' = 0
  /\ initialized' = 0
  /\ stations' = [i \in Slots |-> NoStation]
  /\ station_count' = 0
  /\ scan_progress' = 0
  /\ filtered_roms' = [k \in 1 .. Len(filtered_roms) |-> NullRom]
  /\ UNCHANGED << scan_cancel_flag, matching, filterv, cursor >>
  /\ UNCHANGED << saved, scan, previewv, ctl, hist >>
\* slots passed: the slot of the station, or -1 for NULL.
RECURSIVE GetByIndex(_, _, _)
GetByIndex(index, i, count) ==
  IF i >= ROM_MAX_STATIONS
    THEN -1
    ELSE IF SlotEnabled(stations, i)
           THEN IF count = index
                  THEN i
                  ELSE GetByIndex(index, i + 1, count + 1)
           ELSE GetByIndex(index, i + 1, count)

rom_station_get_by_index(index) == GetByIndex(index, 0, 0)

\* rom_station_count, lines 329-332.
rom_station_count == station_count

\* rom_browse_init, lines 532-539: the station filter is set and the view
\* rebuilt.
rom_browse_init(filter) ==
  /\ pc[Main] = "idle"
  /\ CountOp
  /\ browse_station_filter' = filter
  /\ iFirstEntry' = 0
  /\ iSelectedEntry' = 0
  /\ search_filter' = << >>
  /\ filtered_roms' = FilteredList(roms, filter, << >>)
  /\ UNCHANGED osd_size
  /\ UNCHANGED << stations, roms, alloc, station_count, saved, scan, scanctl, previewv >>
  /\ UNCHANGED << ctl, hist >>

BrowseInit == \E filter \in { -1 } \cup StationIds : rom_browse_init(filter)

\* rom_scan_cancel, lines 481-484: called while the caller's thread is in
\* any function or in none.
ScanCancel ==
  /\ scan_cancel_flag = 0
  /\ scan_cancel_flag' = 1
  /\ UNCHANGED << stations, roms, alloc, station_count, saved, view, scan >>
  /\ UNCHANGED << scan_progress, matching, ops, previewv, ctl, hist >>

\* rom_scan_station(station_id)
CallScanStation ==
  /\ pc[Main] = "idle"
  /\ CountOp
  /\ \E id \in StationArgs : scan' = [NoScan EXCEPT !.station_id = id]
  /\ Call(Main, "ss_begin", "idle")
  /\ UNCHANGED << stations, roms, alloc, station_count, saved, view, scanctl >>
  /\ UNCHANGED << previewv, arg, log, lastOp, tried, sole >>

\* rom_scan_station, lines 417-452: -1 when rom_station_get returns NULL;
\* otherwise the cancel flag is cleared, the station's entries are purged,
\* its rom_count is reset and the walk of its rom_path begins.
ScanBegin ==
  /\ pc[Main] = "ss_begin"
  /\ UNCHANGED ops
  /\ LET id == scan.station_id IN
       IF ~rom_station_get(id)
         THEN /\ Return(Main, -1)
              /\ scan' = NoScan
              /\ UNCHANGED << stations, roms, alloc, scan_cancel_flag >>
         ELSE /\ scan_cancel_flag' = 0
              /\ roms' = Purge(roms, id)
              /\ UNCHANGED alloc
              /\ stations' = [stations EXCEPT ![id].rom_count = 0]
              /\ scan' = [scan EXCEPT !.todo = Walk[stations[id].rom_path]]
              /\ Goto(Main, "ss_walk")
  /\ UNCHANGED << station_count, saved, view, scan_progress, matching, previewv >>
  /\ UNCHANGED << arg, log, lastOp, tried, sole >>

\* add_rom_entry, lines 342-351: a full store is reallocated for twice its
\* capacity before the entry is written; here realloc returns a block.
Grow ==
  /\ IF Len(roms) >= rom_capacity
       THEN /\ rom_capacity' = rom_capacity * 2
            /\ roms_size' = rom_capacity * 2
       ELSE UNCHANGED << rom_capacity, roms_size >>
  /\ UNCHANGED initialized

\* Mutant of ScanWalk: the walk goes on whatever the cancel flag holds.
ScanWalkIgnoresCancel ==
  /\ pc[Main] = "ss_walk"
  /\ UNCHANGED ops
  /\ scan.todo # << >>
  /\ LET id == scan.station_id
         item == Head(scan.todo)
     IN IF item.dir
          THEN UNCHANGED << roms, alloc, stations >>
          ELSE /\ Grow
               /\ roms' = Append(roms, Entry(item.name, stations[id].id,
                                                stations[id].rom_path))
               /\ stations' = [stations EXCEPT ![id].rom_count = @ + 1]
  /\ scan' = [scan EXCEPT !.todo = Tail(@)]
  /\ UNCHANGED << station_count, saved, view, scanctl, previewv, ctl, hist >>

\* scan_directory_recursive and add_rom_entry, lines 338-413, with the flag
\* not raised: the next subdirectory is opened, or the next matching file
\* becomes an entry at the end of the store, which grows first when it is
\* full, attributed to the id the station's record holds, and the station's
\* rom_count is incremented.
ScanWalk ==
  /\ pc[Main] = "ss_walk"
  /\ UNCHANGED ops
  /\ scan_cancel_flag = 0
  /\ scan.todo # << >>
  /\ LET id == scan.station_id
         item == Head(scan.todo)
     IN IF item.dir
          THEN UNCHANGED << roms, alloc, stations >>
          ELSE /\ Grow
               /\ roms' = Append(roms, Entry(item.name, stations[id].id,
                                                stations[id].rom_path))
               /\ stations' = [stations EXCEPT ![id].rom_count = @ + 1]
  /\ scan' = [scan EXCEPT !.todo = Tail(@)]
  /\ UNCHANGED << station_count, saved, view, scanctl, previewv, ctl, hist >>

\* add_rom_entry, lines 342-346: the store has to grow for the next matching
\* file and realloc fails; the file yields no entry and the walk goes on.
ScanWalkNoMemory ==
  /\ pc[Main] = "ss_walk"
  /\ scan_cancel_flag = 0
  /\ scan.todo # << >>
  /\ ~Head(scan.todo).dir
  /\ Len(roms) >= rom_capacity
  /\ scan' = [scan EXCEPT !.todo = Tail(@)]
  /\ UNCHANGED << stations, roms, alloc, station_count, saved, view, scanctl, ops >>
  /\ UNCHANGED << previewv, ctl, hist >>

\* The capacity of a store of capacity cap after entries were added to it
\* up to a count of n, each growth doubling it.
RECURSIVE Grown(_, _)
Grown(cap, n) ==
  IF cap >= n \/ cap = 0 THEN cap ELSE Grown(cap * 2, n)

\* The numbers of matching files a subdirectory may hold.
RunSizes ==
  { 1, ROM_MAX_PER_STATION, ROM_MAX_PER_STATION + 1, ROM_MAX_TOTAL }

\* scan_directory_recursive and add_rom_entry, lines 338-413, with the flag
\* not raised from the moment a subdirectory is opened until its last file
\* is read: each of its n matching files, named by its number, becomes an
\* entry at the end of the store and increments the station's rom_count.
\* Every realloc of the run returns a block: the store grows as often as
\* needed.
ScanWalkDir ==
  /\ pc[Main] = "ss_walk"
  /\ ops <= MaxRuns
  /\ UNCHANGED ops
  /\ scan_cancel_flag = 0
  /\ scan.todo # << >>
  /\ Head(scan.todo).dir
  /\ LET id == scan.station_id IN
       \E n \in RunSizes :
         /\ roms' = roms \o [k \in 1 .. n |->
                               Entry(ToString(k), stations[id].id,
                                     stations[id].rom_path)]
         /\ stations' = [stations EXCEPT ![id].rom_count = @ + n]
         /\ rom_capacity' = Grown(rom_capacity, Len(roms) + n)
         /\ roms_size' = rom_capacity'
         /\ UNCHANGED initialized
  /\ scan' = [scan EXCEPT !.todo = Tail(@)]
  /\ UNCHANGED << station_count, saved, view, scanctl, previewv, ctl, hist >>

\* rom_scan_station, lines 448-458: the walk is over or the flag is raised;
\* the view is rebuilt and the station's rom_count is returned.
ScanEnd ==
  /\ pc[Main] = "ss_walk"
  /\ UNCHANGED ops
  /\ scan.todo = << >> \/ scan_cancel_flag # 0
  /\ Rebuild(roms)
  /\ Return(Main, stations[scan.station_id].rom_count)
  /\ scan' = IF Head(stk[Main]) = "idle"
               THEN NoScan
               ELSE [scan EXCEPT !.todo = << >>]
  /\ UNCHANGED << stations, roms, alloc, station_count, saved, scanctl >>
  /\ UNCHANGED << filterv, cursor, previewv >>
  /\ UNCHANGED << arg, log, lastOp, tried, sole >>

\* rom_scan_all(), lines 461-465: the cancel flag is cleared.
CallScanAll ==
  /\ pc[Main] = "idle"
  /\ CountOp
  /\ scan' = NoScan
  /\ scan_cancel_flag' = 0
  /\ Call(Main, "sa_loop", "idle")
  /\ UNCHANGED << stations, roms, alloc, station_count, saved, view >>
  /\ UNCHANGED << scan_progress, matching, previewv, arg, log, lastOp, tried, sole >>

\* rom_scan_all, lines 467-478: the slots in ascending order while the flag
\* is not raised; for an enabled one the progress is set and the station is
\* scanned with rom_scan_station.  The stations of the slots above the
\* tracked ones have no entry and nothing under their rom_path: their scans
\* clear the flag and rebuild the view, and the progress is left as the last
\* of them set it.  After the loop the progress is 100 and the total is
\* returned.
ScanAllLoop ==
  /\ pc[Main] = "sa_loop"
  /\ UNCHANGED ops
  /\ LET i == scan.i IN
       IF i >= ROM_MAX_STATIONS \/ scan_cancel_flag # 0
         THEN /\ scan_progress' = 100
              /\ Return(Main, scan.total)
              /\ scan' = NoScan
              /\ UNCHANGED << view, scan_cancel_flag >>
         ELSE IF i \in StationIds
                THEN IF stations[i].enabled
                       THEN /\ scan_progress' = (i * 100) \div station_count
                            /\ scan' = [scan EXCEPT !.station_id = i]
                            /\ Call(Main, "ss_begin", "sa_after")
                            /\ UNCHANGED << view, scan_cancel_flag >>
                       ELSE /\ scan' = [scan EXCEPT !.i = i + 1]
                            /\ Goto(Main, "sa_loop")
                            /\ UNCHANGED << view, scanctl >>
                ELSE IF stations[OtherSlots].enabled
                       THEN /\ scan_progress' =
                                 ((ROM_MAX_STATIONS - 1) * 100)
                                   \div station_count
                            /\ scan_cancel_flag' = 0
                            /\ scan' = [scan EXCEPT !.i = ROM_MAX_STATIONS]
                            /\ Rebuild(roms)
                            /\ Goto(Main, "sa_loop")
                            /\ UNCHANGED << filterv, cursor >>
                       ELSE /\ scan' = [scan EXCEPT !.i = ROM_MAX_STATIONS]
                            /\ Goto(Main, "sa_loop")
                            /\ UNCHANGED << view, scanctl >>
  /\ UNCHANGED << stations, roms, alloc, station_count, saved, matching, previewv >>
  /\ UNCHANGED << arg, log, lastOp, tried, sole >>

\* Mutant of ScanAllAfter: the station's count replaces the total.
ScanAllAfterOverwrites ==
  /\ pc[Main] = "sa_after"
  /\ UNCHANGED ops
  /\ scan' = [scan EXCEPT
                !.total = ret[Main],
                !.i = @ + 1,
                !.done = Append(@, [id |-> scan.station_id,
                                    count |-> ret[Main]])]
  /\ Goto(Main, "sa_loop")
  /\ UNCHANGED << stations, roms, alloc, station_count, saved, view, scanctl >>
  /\ UNCHANGED << previewv, arg, log, lastOp, tried, sole >>

\* rom_scan_all, line 470: the station's count is added to the total.
ScanAllAfter ==
  /\ pc[Main] = "sa_after"
  /\ UNCHANGED ops
  /\ scan' = [scan EXCEPT
                !.total = @ + ret[Main],
                !.i = @ + 1,
                !.done = Append(@, [id |-> scan.station_id,
                                    count |-> ret[Main]])]
  /\ Goto(Main, "sa_loop")
  /\ UNCHANGED << stations, roms, alloc, station_count, saved, view, scanctl >>
  /\ UNCHANGED << previewv, arg, log, lastOp, tried, sole >>

\* ------------------------------------------------------------- rom browse
\* rom_browse_scan, lines 546-605, as a function of the cursor, the view's
\* length n and the page size: the new << iFirstEntry, iSelectedEntry >>.
BrowseScan(mode, first, sel, n, size) ==
  LET Clamp(x) == IF x < 0 THEN 0 ELSE x IN
  IF mode = SCANF_INIT THEN << 0, 0 >>
  ELSE IF n = 0 THEN << first, sel >>
  ELSE IF mode = SCANF_END \/ (mode = SCANF_PREV /\ sel <= 0)
    THEN << Clamp((n - 1) - size + 1), n - 1 >>
  ELSE IF mode = SCANF_NEXT
    THEN IF sel + 1 < n
           THEN << IF sel + 1 > first + size - 1
                     THEN (sel + 1) - size + 1
                     ELSE first,
                   sel + 1 >>
           ELSE << 0, 0 >>
  ELSE IF mode = SCANF_PREV
    THEN IF sel > 0
           THEN << IF sel - 1 < first THEN sel - 1 ELSE first, sel - 1 >>
           ELSE << first, sel >>
  ELSE IF mode = SCANF_NEXT_PAGE
    THEN IF sel < first + size - 1
           THEN << first,
                   IF first + size - 1 >= n THEN n - 1 ELSE first + size - 1 >>
           ELSE IF sel + size >= n
                  THEN << Clamp((n - 1) - size + 1), n - 1 >>
                  ELSE IF (first + size) + size > n
                         THEN << n - size, sel + size >>
                         ELSE << first + size, sel + size >>
  ELSE IF mode = SCANF_PREV_PAGE
    THEN IF sel # first
           THEN << first, first >>
           ELSE << Clamp(first - size), Clamp(first - size) >>
  ELSE << first, sel >>

\* Mutant of rom_browse_scan: the selection moves, the first visible index
\* stays.
BrowseScanKeepsFirst(mode) ==
  /\ pc[Main] = "idle"
  /\ iSelectedEntry' = BrowseScan(mode, iFirstEntry, iSelectedEntry,
                                  Len(filtered_roms), osd_size)[2]
  /\ UNCHANGED << stations, roms, alloc, station_count, saved, filtered_roms >>
  /\ UNCHANGED << filterv, iFirstEntry, osd_size, scan, scanctl, ops >>
  /\ UNCHANGED << previewv, ctl, hist >>

\* Mutant of rom_browse_scan: when next or previous wraps around, the first
\* visible index stays.
BrowseScanWrapKeepsFirst(mode) ==
  /\ pc[Main] = "idle"
  /\ LET n == Len(filtered_roms)
         new == BrowseScan(mode, iFirstEntry, iSelectedEntry, n, osd_size)
         wraps == \/ mode = SCANF_NEXT /\ iSelectedEntry + 1 >= n
                  \/ mode = SCANF_PREV /\ iSelectedEntry <= 0
     IN /\ iFirstEntry' = IF wraps THEN iFirstEntry ELSE new[1]
        /\ iSelectedEntry' = new[2]
  /\ UNCHANGED << stations, roms, alloc, station_count, saved, filtered_roms >>
  /\ UNCHANGED << filterv, osd_size, scan, scanctl, ops, previewv, ctl, hist >>

\* rom_browse_scan(mode)
rom_browse_scan(mode) ==
  /\ pc[Main] = "idle"
  /\ LET new == BrowseScan(mode, iFirstEntry, iSelectedEntry,
                           Len(filtered_roms), osd_size)
     IN /\ iFirstEntry' = new[1]
        /\ iSelectedEntry' = new[2]
  /\ UNCHANGED << stations, roms, alloc, station_count, saved, filtered_roms >>
  /\ UNCHANGED << filterv, osd_size, scan, scanctl, ops, previewv, ctl, hist >>

BrowseScroll == \E mode \in ScanModes : rom_browse_scan(mode)

\* strncpy into search_filter, lines 767-768: at most SEARCH_FILTER_LEN - 1
\* characters are kept.
Truncate(text) ==
  IF Len(text) < SEARCH_FILTER_LEN
    THEN text
    ELSE SubSeq(text, 1, SEARCH_FILTER_LEN - 1)

\* rom_filter_set, lines 765-772: the text is stored, the view rebuilt and
\* the cursor reset.
rom_filter_set(text) ==
  /\ pc[Main] = "idle"
  /\ CountOp
  /\ search_filter' = Truncate(text)
  /\ filtered_roms' =
       FilteredList(roms, browse_station_filter, search_filter')
  /\ iFirstEntry' = 0
  /\ iSelectedEntry' = 0
  /\ UNCHANGED << stations, roms, alloc, station_count, saved >>
  /\ UNCHANGED << browse_station_filter, osd_size, scan, scanctl, previewv >>
  /\ UNCHANGED << ctl, hist >>

FilterSet == \E text \in Texts : rom_filter_set(text)

\* Mutant of rom_filter_clear: the text is cleared, the view is left.
FilterClearKeepsView ==
  /\ pc[Main] = "idle"
  /\ CountOp
  /\ search_filter' = << >>
  /\ UNCHANGED << stations, roms, alloc, station_count, saved, filtered_roms >>
  /\ UNCHANGED << browse_station_filter, cursor, scan, scanctl, previewv >>
  /\ UNCHANGED << ctl, hist >>

\* rom_filter_clear, lines 774-778: the text is cleared and the view rebuilt.
FilterClear ==
  /\ pc[Main] = "idle"
  /\ CountOp
  /\ search_filter' = << >>
  /\ filtered_roms' = FilteredList(roms, browse_station_filter, << >>)
  /\ UNCHANGED << stations, roms, alloc, station_count, saved >>
  /\ UNCHANGED << browse_station_filter, cursor, scan, scanctl, previewv >>
  /\ UNCHANGED << ctl, hist >>

\* strcasecmp on two display names: negative, zero or positive.
RECURSIVE CompareChars(_, _)
CompareChars(x, y) ==
  IF x = << >> \/ y = << >>
    THEN Len(x) - Len(y)
    ELSE IF ToLower(Head(x)) # ToLower(Head(y))
           THEN ToLower(Head(x)) - ToLower(Head(y))
           ELSE CompareChars(Tail(x), Tail(y))

strcasecmp(a, b) == CompareChars(Chars[a], Chars[b])

\* compare_roms, lines 722-751, on two entries.
compare_roms(mode, ra, rb) ==
  CASE mode = ROM_SORT_NAME_ASC -> strcasecmp(ra.name, rb.name)
    [] mode = ROM_SORT_NAME_DESC -> strcasecmp(rb.name, ra.name)
    [] mode = ROM_SORT_STATION_ASC ->
         IF ra.station_id # rb.station_id
           THEN ra.station_id - rb.station_id
           ELSE strcasecmp(ra.name, rb.name)
    [] mode = ROM_SORT_STATION_DESC ->
         IF ra.station_id # rb.station_id
           THEN rb.station_id - ra.station_id
           ELSE strcasecmp(ra.name, rb.name)
    [] mode = ROM_SORT_DATE_ASC -> ToInt(Sub32(ra.date, rb.date))
    [] mode = ROM_SORT_DATE_DESC -> ToInt(Sub32(rb.date, ra.date))
    [] mode = ROM_SORT_SIZE_ASC -> ToInt(Sub32(ra.size, rb.size))
    [] mode = ROM_SORT_SIZE_DESC -> ToInt(Sub32(rb.size, ra.size))
    [] OTHER -> 0

\* The arrangements of the view v.
Arrangements(v) ==
  { [k \in 1 .. Len(v) |-> v[f[k]]] :
      f \in { g \in [1 .. Len(v) -> 1 .. Len(v)] :
                \A k, l \in 1 .. Len(v) : k # l => g[k] # g[l] } }

\* qsort with compare_roms: an arrangement that the comparison finds in
\* order; any arrangement when the comparison orders none.
SortOutcomes(v, mode) ==
  LET InOrder(w) ==
        \A k, l \in 1 .. Len(w) :
          k < l => compare_roms(mode, roms[w[k]], roms[w[l]]) <= 0
      sorted == { w \in Arrangements(v) : InOrder(w) }
  IN IF sorted # {} THEN sorted ELSE Arrangements(v)

\* Mutant of rom_sort: the entries of the store are sorted, and the view
\* lists them in the new order.
SortStore(mode) ==
  /\ pc[Main] = "idle"
  /\ CountOp
  /\ \E w \in SortOutcomes([j \in 1 .. Len(roms) |-> j], mode) :
       roms' = [k \in 1 .. Len(roms) |-> roms[w[k]]]
  /\ UNCHANGED << stations, alloc, station_count, saved, view >>
  /\ UNCHANGED << scan, scanctl, previewv, ctl, hist >>

\* filtered_roms is NULL while filtered_count is not 0: the array was freed
\* and the count left as it was.  Each of its elements reads as NullRom.
ViewFreed(v) == v # << >> /\ v[1] = NullRom

\* Element k of the view points at no entry of the store: the array was
\* freed, or the store was cleared or moved after the view was built.  What
\* a read through it yields is undefined, and a call that makes one is not
\* followed.
Dangles(k) == filtered_roms[k] \notin 1 .. Len(roms)

\* rom_sort, lines 753-759: a view that is not empty is sorted in place.
rom_sort(mode) ==
  /\ pc[Main] = "idle"
  /\ CountOp
  /\ ViewFreed(filtered_roms)
       \/ \A k \in 1 .. Len(filtered_roms) : ~Dangles(k)
  /\ IF ViewFreed(filtered_roms)
       THEN UNCHANGED filtered_roms
       ELSE filtered_roms' \in SortOutcomes(filtered_roms, mode)
  /\ UNCHANGED << stations, roms, alloc, station_count, saved, filterv, cursor >>
  /\ UNCHANGED << scan, scanctl, previewv, ctl, hist >>

Sort == \E mode \in SortModes : rom_sort(mode)

\* What rom_browse_select leaves in path, core_path and label when it
\* returns 0.
EmptySelection == [found |-> 0, path |-> << >>, core_path |-> "", label |-> ""]

\* The search name of a core, line 690: "_" and the station's core_path.
CoreSearch(core) == << "_", core >>

\* Mutant of Selection: the launcher is looked up in the slot the cursor
\* names.
SelectionBySlot ==
  IF Len(filtered_roms) = 0 \/ iSelectedEntry >= Len(filtered_roms)
    THEN EmptySelection
    ELSE LET rom == roms[filtered_roms[iSelectedEntry + 1]]
             sid == iSelectedEntry
         IN [found |-> 1, path |-> rom.path, label |-> rom.name,
             core_path |->
               IF sid \in StationIds /\ rom_station_get(sid)
                                    /\ stations[sid].core_path # ""
                 THEN CoreSearch(stations[sid].core_path)
                 ELSE ""]

\* rom_browse_select, lines 674-698: the value returned with the three
\* strings it fills in.
Selection ==
  IF Len(filtered_roms) = 0 \/ iSelectedEntry >= Len(filtered_roms)
    THEN EmptySelection
    ELSE LET rom == roms[filtered_roms[iSelectedEntry + 1]]
             sid == rom.station_id
         IN [found |-> 1, path |-> rom.path, label |-> rom.name,
             core_path |->
               IF sid \in StationIds /\ rom_station_get(sid)
                                    /\ stations[sid].core_path # ""
                 THEN CoreSearch(stations[sid].core_path)
                 ELSE ""]

\* rom_browse_select(path, core_path, label): the strings go to the caller's
\* buffers.
BrowseSelect ==
  /\ pc[Main] = "idle"
  /\ iSelectedEntry < Len(filtered_roms) => ~Dangles(iSelectedEntry + 1)
  /\ Returns(Selection.found)
  /\ UNCHANGED << catalog, previewv >>

\* ------------------------------------------------------------ specifications
\* The steps of the functions both the caller and a thread can be in.
SharedStep(p) ==
  \/ ClearFree(p)
  \/ ClearReset(p)
  \/ LoadEntry(p)
  \/ LoadImage(p)
  \/ LoadSetReady(p)
  \/ LoadNotFound(p)
  \/ FetchEntry(p)
  \/ FetchProbe(p)
  \/ FetchWget(p)
  \/ FetchCheck(p)
  \/ FetchNotFound(p)

ThreadStep(t) ==
  \/ ThreadStart(t)
  \/ ThreadFinish(t)
  \/ SharedStep(t)

AsyncStep ==
  \/ AsyncCheck
  \/ AsyncJoin
  \/ AsyncResetCancel
  \/ AsyncMark
  \/ AsyncSetLoading
  \/ AsyncCreate

SeqCall ==
  \/ CallLoadLocal
  \/ CallFetchOnline
  \/ CallClear
  \/ CallCleanup
  \/ StationUpdate

\* The caller alone: no background thread is ever created.
SeqNext ==
  \/ SeqCall
  \/ SharedStep(Main)

SeqSpec == Init /\ [][SeqNext]_vars

\* The caller and the background threads.
Next ==
  \/ SeqCall
  \/ CallFetchAsync
  \/ AsyncStep
  \/ SharedStep(Main)
  \/ \E t \in Threads : ThreadStep(t)

Spec == Init /\ [][Next]_vars

\* The scheduler runs every thread that can run, and a call in progress on
\* the caller's thread goes on; the caller is free to make no further call.
FairSpec ==
  /\ Spec
  /\ \A t \in Threads : WF_vars(ThreadStep(t))
  /\ WF_vars(AsyncStep)
  /\ WF_vars(SharedStep(Main))

BatchStep ==
  \/ BatchBegin
  \/ BatchLoop
  \/ BatchAfter

\* The caller runs batch fetches, reloads the registry and enables or
\* disables a station between them; batch_cancel arrives at any moment.
BatchNext ==
  \/ CallBatchFetch
  \/ BatchStep
  \/ SharedStep(Main)
  \/ BatchCancel
  \/ CatalogLoad
  \/ StationUpdate

BatchSpec == Init /\ [][BatchNext]_vars

ScanStep ==
  \/ ScanBegin
  \/ ScanWalk
  \/ ScanEnd
  \/ ScanAllLoop
  \/ ScanAllAfter

\* The catalog on the caller's thread: stations are loaded, added, removed
\* and updated, scanned one by one or all together, and the view is filtered.
CatNext ==
  \/ CatalogLoad
  \/ StationAdd
  \/ StationRemove
  \/ StationUpdateRecord
  \/ BrowseInit
  \/ CallScanStation
  \/ CallScanAll
  \/ ScanStep

CatSpec == Init /\ [][CatNext]_vars

\* The scanner, with cancellation raised at any moment, over registries that
\* removals and additions have changed.
ScanNext ==
  \/ StationAdd
  \/ StationRemove
  \/ CallScanStation
  \/ CallScanAll
  \/ ScanStep
  \/ ScanCancel

ScanSpec == Init /\ [][ScanNext]_vars

\* The catalog through its life: it is initialized, loaded and freed in any
\* order between the operations of the registry, the scanner and the
\* browser, and realloc and malloc may return NULL.
LifeNext ==
  \/ CatalogInit
  \/ CatalogFree
  \/ CatalogLoad
  \/ StationAdd
  \/ StationRemove
  \/ CallScanStation
  \/ CallScanAll
  \/ ScanStep
  \/ ScanWalkNoMemory
  \/ BrowseInit
  \/ FilterSet
  \/ FilterClear
  \/ Sort
  \/ BrowseSelect

LifeSpec == Init /\ [][LifeNext]_vars

\* The scanner over directories of any size: two stations are registered
\* with the directory m and nothing has been scanned yet.
LimitInit ==
  /\ ConstructedOver(<< >>, [i \in StationIds |-> "m"])
  /\ osd_size = MaxPage
  /\ matching = NoMatch

LimitNext ==
  \/ CallScanStation
  \/ ScanBegin
  \/ ScanWalk
  \/ ScanWalkDir
  \/ ScanEnd

LimitSpec == LimitInit /\ [][LimitNext]_vars

\* Background fetches and scans together: the caller launches fetches of the
\* first entry and scans stations while the threads run.
RaceNext ==
  \/ CallFetchAsync
  \/ AsyncStep
  \/ \E t \in Threads : ThreadStep(t)
  \/ CallScanStation
  \/ ScanBegin
  \/ ScanWalk
  \/ ScanEnd

RaceSpec == Init /\ [][RaceNext]_vars

\* The sizes and dates a file can have, across the range of uint32_t:
\* 0, 2^31 - 1, 2^31 and 2^32 - 1.
WideValues ==
  { U32(0, 0), U32(Half \div 2 - 1, Half - 1), U32(Half \div 2, 0),
    U32(Half - 1, Half - 1) }

\* Sorting on its own: the store is as the scan of files of any size and
\* date leaves it, and the view of the whole store is sorted.
WideInit ==
  \E size, date \in [1 .. Len(Roms) -> WideValues] :
    /\ ConstructedWith([k \in 1 .. Len(Roms) |->
                          [Roms[k] EXCEPT !.size = size[k],
                                          !.date = date[k]]])
    /\ osd_size = MaxPage
    /\ matching = NoMatch

WideNext == Sort

WideSpec == WideInit /\ [][WideNext]_vars

\* ---------------------------------------------------------- match_extension
\* tolower on the letters the file names and the lists are written with.
tolower(ch) ==
  CASE ch = "A" -> "a"
    [] ch = "B" -> "b"
    [] OTHER -> ch

\* The first position from p on where str holds a space (space = TRUE) or
\* something else (space = FALSE); the position of the terminating zero if
\* there is none.
Advance(str, p, space) ==
  LET found == { i \in p .. Len(str) : (str[i] = " ") = space }
  IN IF found = {} THEN Len(str) + 1
     ELSE CHOOSE i \in found : \A j \in found : i <= j

\* match_extension, lines 832-855: the loop over the list from position p.
\* Leading spaces are skipped; a token of 1 to 8 characters is lowercased and
\* compared with the file's extension; any other token is passed over.
RECURSIVE MatchTokens(_, _, _)
MatchTokens(ext_lower, extensions, p) ==
  LET start == Advance(extensions, p, FALSE)
      end == Advance(extensions, start, TRUE)
      token_len == end - start
      cmp == [i \in 1 .. token_len |-> tolower(extensions[start + i - 1])]
  IN IF start > Len(extensions) THEN 0
     ELSE IF token_len > 0 /\ token_len <= EXT_COMPARED /\ ext_lower = cmp
       THEN 1
       ELSE MatchTokens(ext_lower, extensions, end)

\* match_extension, lines 815-858.
match_extension(filename, extensions) ==
  IF extensions = << >> THEN 1
  ELSE LET dots == { i \in 1 .. Len(filename) : filename[i] = "." } IN
    IF dots = {} THEN 0
    ELSE LET dot == CHOOSE i \in dots : \A j \in dots : j <= i
             len == Len(filename) - dot
             ext_len == IF len > EXT_COMPARED THEN EXT_COMPARED ELSE len
             ext_lower == [i \in 1 .. ext_len |-> tolower(filename[dot + i])]
         IN MatchTokens(ext_lower, extensions, 1)

\* n times the letter a.
Letters(n) == [i \in 1 .. n |-> "a"]

\* What follows the last dot of a file name: nothing, short extensions in
\* either case, and extensions of 8 and 9 characters.
Extensions ==
  { << >>, << "a" >>, << "A" >>, << "a", "b" >>,
    Letters(EXT_COMPARED), Letters(EXT_COMPARED + 1),
    Letters(EXT_COMPARED) \o << "b" >> }

\* The file names readdir returns: without a dot, and with one or two.
Filenames ==
  { << "r" >>, << "a" >> }
    \cup { stem \o << "." >> \o x :
             stem \in { << >>, << "r" >>, << "r", ".", "b" >> },
             x \in Extensions }

\* The lists a station is registered with: empty, spaces only, one token or
\* two, with one space or two between them and with or without a space in
\* front.
ExtensionLists ==
  LET tokens == Extensions \ { << >> }
      lists == { << >>, << " " >> }
                 \cup tokens
                 \cup { t \o sep \o u : t \in tokens, u \in tokens,
                          sep \in { << " " >>, << " ", " " >> } }
  IN lists \cup { << " " >> \o l : l \in tokens }

\* scan_directory_recursive, line 406: match_extension is called with the
\* name of a file and the extensions of the station.
MatchExtension ==
  /\ matching.result = -1
  /\ matching' = [matching EXCEPT
                    !.result = match_extension(matching.filename,
                                               matching.extensions)]
  /\ UNCHANGED << stations, roms, alloc, station_count, saved, view, scan >>
  /\ UNCHANGED << scan_cancel_flag, scan_progress, ops, previewv, ctl, hist >>

\* A file of any name is met in the directory of a station registered with
\* any list.
ExtInit ==
  \E f \in Filenames, e \in ExtensionLists :
    /\ Constructed
    /\ osd_size = MaxPage
    /\ matching = [filename |-> f, extensions |-> e, result |-> -1]

ExtNext == MatchExtension

ExtSpec == ExtInit /\ [][ExtNext]_vars

\* The list on screen: the view is filtered, sorted, scrolled and selected
\* from, while stations are removed and scanned, for every page size.
BrowseNext ==
  \/ BrowseInit
  \/ FilterSet
  \/ FilterClear
  \/ Sort
  \/ BrowseScroll
  \/ BrowseSelect
  \/ StationRemove
  \/ CallScanStation
  \/ ScanBegin
  \/ ScanWalk
  \/ ScanEnd

\* The catalog as constructed, shown on a screen of any number of lines.
BrowseStart ==
  Constructed /\ osd_size \in 1 .. MaxPage /\ matching = NoMatch

BrowseSpec == BrowseStart /\ [][BrowseNext]_vars

\* The cursor on its own: the view of a store of n entries, as the scan of a
\* tree of n files for station 0 leaves it, is scrolled, for every n up to
\* MaxView and every page size.
CursorInit ==
  \E n \in 0 .. MaxView :
    /\ ConstructedWith([j \in 1 .. n |-> Entry("a", 0, "p")])
    /\ osd_size \in 1 .. MaxPage
    /\ matching = NoMatch

CursorNext == BrowseScroll

CursorSpec == CursorInit /\ [][CursorNext]_vars

\* ------------------------------------------------------------------ claims
\* A thread is inside rom_preview_fetch_online (and what it calls).
InFetchOnline(t) == pc[t] \notin { "unborn", "t_start", "t_fin", "exited", "joined" }

\* A thread has been created and has not yet cleared fetch_in_progress.
Running(t) == pc[t] \notin { "unborn", "exited", "joined" }

\* No thread is running and the caller is between two calls.
Quiescent == pc[Main] = "idle" /\ \A t \in Threads : ~Running(t)

\* The caller is past the join of rom_preview_fetch_async.
PastJoin == pc[Main] \in { "fa_reset", "fa_mark", "fa_loading", "fa_create" }

\* C1: at most one background thread executes rom_preview_fetch_online at any
\* time; a fetch_async that finds a fetch in progress has raised the cancel
\* flag while it waits in pthread_join, and goes on to launch the next thread
\* only when no thread is running any more.
C1_SingleFlight ==
  /\ Cardinality({ t \in Threads : InFetchOnline(t) }) <= 1
  /\ Cardinality({ t \in Threads : Running(t) }) <= 1
  /\ pc[Main] = "fa_join" => fetch_cancel = 1
  /\ PastJoin => \A t \in Threads : ~Running(t)

\* A second thread is inside fetch_online after the first one was joined.
C1_Witness ==
  \E t1, t2 \in Threads : pc[t1] = "joined" /\ InFetchOnline(t2)

\* C2: under every interleaving of the caller's calls with a background
\* thread, no image is freed twice, no live image is dropped from the slot
\* without being freed, and the slot never offers a freed image as ready.
C2_ReleasedOnce ==
  /\ \A i \in Images : heap[i] # "freed2"
  /\ \A i \in Images : heap[i] = "live" => image_data = i
  /\ (pc[Main] = "idle" /\ status = PREVIEW_STATUS_READY /\ image_data # 0)
       => heap[image_data] = "live"

\* C3: whenever no call is under way, the slot holds an image only if its
\* status is ready.
C3_ImageOnlyWhenReady ==
  Quiescent => (image_data # 0 => status = PREVIEW_STATUS_READY)

\* C4: after a fetch_async of an entry that launched a thread, with no other
\* preview call since, once fetch_poll reports completion the status is a
\* terminal one.
C4_TerminalAfterPoll ==
  (/\ sole
   /\ pc[Main] = "idle"
   /\ arg[Main] # NullRom
   /\ rom_preview_fetch_poll = 1)
    => status \in TerminalStatus

\* C5: when a thread is launched after an earlier one, the earlier one has
\* been joined; and once the later thread has finished, with no other preview
\* call since its launch, the status it left is a terminal one.
C5_JoinedThenTerminal ==
  /\ \A t1, t2 \in Threads :
       (t1 < t2 /\ pc[t2] # "unborn") => pc[t1] = "joined"
  /\ (/\ sole
      /\ arg[Main] # NullRom
      /\ fetch_thread > 1
      /\ pc[fetch_thread] = "exited")
       => status \in TerminalStatus

\* What the pthread_create step of fetch_async must satisfy.
C6_Create ==
  pc[Main] = "fa_create" /\ pc'[Main] # "fa_create" =>
    IF \E t \in Threads : pc[t] = "unborn" /\ pc'[t] # "unborn"
      THEN status = PREVIEW_STATUS_LOADING /\ status' = PREVIEW_STATUS_LOADING
      ELSE /\ status' = PREVIEW_STATUS_ERROR
           /\ ret'[Main] = -1
           /\ rom_preview_fetch_poll' = 1

\* C6: in the step that creates the thread the status is loading (line 327 ran
\* first and nothing overwrote it); in the step where pthread_create fails
\* the status becomes error, fetch_async returns -1 and fetch_poll reports 1.
C6_LoadingBeforeLaunch == [][C6_Create]_vars

\* fetch_async has returned -1.
C6_Witness ==
  /\ pc[Main] = "idle"
  /\ lastOp = "fetch_async"
  /\ ret[Main] = -1
  /\ status = PREVIEW_STATUS_ERROR

\* What fetch_poll answers while a thread runs and when none does.
C7_Safe ==
  /\ (\E t \in Threads : Running(t)) => rom_preview_fetch_poll = 0
  /\ Quiescent => rom_preview_fetch_poll = 1

\* C7: fetch_poll reports 0 while a launched thread has not finished, reports
\* 1 when every launched thread has finished and no fetch_async is under way,
\* and after every fetch_async eventually reports 1.
C7_Poll ==
  /\ []C7_Safe
  /\ (pc[Main] = "idle" /\ lastOp = "fetch_async") ~> (rom_preview_fetch_poll = 1)

\* A launched thread has finished with every download failed, and fetch_poll
\* reports 1.
C7_Witness ==
  /\ pc[Main] = "idle"
  /\ lastOp = "fetch_async"
  /\ sole
  /\ pc[fetch_thread] = "exited"
  /\ status = PREVIEW_STATUS_NOT_FOUND
  /\ rom_preview_fetch_poll = 1

\* The slot owns the only live image; every other handle was freed once.
C8_Inv ==
  /\ Cardinality(LiveImages) <= 1
  /\ \A i \in LiveImages : image_data = i
  /\ \A i \in AllocatedImages : i # image_data => heap[i] = "freed"
  /\ \A i \in Images : heap[i] # "freed2"
  /\ (pc[Main] = "idle" /\ lastOp \in { "clear", "cleanup" })
       => (status = PREVIEW_STATUS_NONE /\ image_data = 0)

\* The free step of clear, when the slot holds no image.
C8_ClearOfEmpty ==
  (pc[Main] = "cl_free" /\ image_data = 0) => heap' = heap

\* C8: in single-threaded use at most one image is live, it is the one the
\* slot holds, every other image handed out has been freed exactly once, and
\* after clear or cleanup the slot is empty with status none; a clear that
\* finds no image in the slot frees nothing.
C8_OneImage == []C8_Inv /\ [][C8_ClearOfEmpty]_vars

\* A second image is in the slot and the first one has been freed.
C8_Witness ==
  \E i, j \in Images :
    heap[i] = "freed" /\ heap[j] = "live" /\ image_data = j /\ pc[Main] = "idle"

\* The state fetch_online returns in after a failed probe.
C9_Post ==
  (/\ pc[Main] = "idle"
   /\ lastOp = "fetch_online"
   /\ \E i \in 1 .. Len(log[Main]) : log[Main][i] = ProbeEvent(FALSE))
    => /\ status = PREVIEW_STATUS_NO_INTERNET
       /\ ret[Main] = -1
       /\ log[Main] = << ProbeEvent(FALSE) >>

\* A step that records a failed probe leaves the cache files alone.
C9_ProbeWritesNoFile ==
  (\E i \in 1 .. Len(log'[Main]) : log'[Main][i] = ProbeEvent(FALSE))
    => cache' = cache

\* C9: a fetch_online whose probe failed has returned -1 with status
\* no_internet, has made no download attempt, and its probe step wrote no
\* cache file.
C9_NoInternet == []C9_Post /\ [][C9_ProbeWritesNoFile]_vars

\* fetch_online has returned after a failed probe.
C9_Witness ==
  /\ pc[Main] = "idle"
  /\ lastOp = "fetch_online"
  /\ log[Main] = << ProbeEvent(FALSE) >>

\* The process is inside rom_preview_load_local (or the clear it calls).
InLoadLocal(p) ==
  \/ pc[p] \in { "ll_entry", "ll_load", "ll_set", "ll_nf" }
  \/ (pc[p] \in { "cl_free", "cl_reset" } /\ Head(stk[p]) = "ll_load")

\* C10: after a successful probe the downloads are attempted in the order of
\* Categories and only the last attempt can have succeeded; after a success
\* the call continues in load_local and ends ready (owned by the entry, return
\* 0) or not_found (return -1); when all three failed the entry's cache file
\* is absent, the status is not_found and the return value -1.
C10_Fetch ==
  LET d == Downloads(Main)
      n == Len(d)
      done == pc[Main] = "idle"
  IN lastOp = "fetch_online" =>
       /\ n <= Len(Categories)
       /\ \A i \in 1 .. n : d[i].category = Categories[i]
       /\ \A i \in 1 .. (n - 1) : ~d[i].ok
       /\ n > 0 => log[Main][1] = ProbeEvent(TRUE)
       /\ (n > 0 /\ d[n].ok /\ ~done) => InLoadLocal(Main)
       /\ (n > 0 /\ d[n].ok /\ done) =>
            \/ /\ status = PREVIEW_STATUS_READY
               /\ ret[Main] = 0
               /\ image_data \in LiveImages
               /\ rom_name = roms[arg[Main]].name
               /\ station_id = roms[arg[Main]].station_id
            \/ /\ status = PREVIEW_STATUS_NOT_FOUND
               /\ ret[Main] = -1
               /\ image_data = 0
       /\ (n = Len(Categories) /\ ~d[n].ok /\ done) =>
            /\ cache[arg[Main]] = "absent"
            /\ status = PREVIEW_STATUS_NOT_FOUND
            /\ ret[Main] = -1

\* All three downloads failed and fetch_online has returned.
C10_Witness ==
  /\ pc[Main] = "idle"
  /\ lastOp = "fetch_online"
  /\ Len(Downloads(Main)) = Len(Categories)
  /\ ~Downloads(Main)[Len(Categories)].ok

\* The candidates of entry r in the order load_local examines them.
CandidateOrder(r) ==
  IF roms[r].has_preview THEN << 1, 2, 3, 4 >> ELSE << 2, 3, 4 >>

\* What holds while load_local is between its load and its return.
C11_Inv ==
  LET t == tried[Main]
      order == CandidateOrder(arg[Main])
  IN /\ pc[Main] = "ll_load" => (image_data = 0 /\ LiveImages = {})
     /\ pc[Main] \in { "ll_set", "ll_nf" } =>
          /\ Len(t) <= Len(order)
          /\ \A i \in 1 .. Len(t) : t[i].candidate = order[i]
          /\ \A i \in 1 .. (Len(t) - 1) : ~t[i].parsed
     /\ pc[Main] = "ll_set" =>
          /\ t # << >> /\ t[Len(t)].parsed
          /\ LiveImages = { image_data }
     /\ pc[Main] = "ll_nf" =>
          /\ Len(t) = Len(order)
          /\ \A i \in 1 .. Len(t) : ~t[i].parsed
          /\ image_data = 0 /\ LiveImages = {}

\* The returns of load_local: after a candidate parsed, after none did, and
\* for a NULL entry.
C11_Return ==
  /\ pc[Main] = "ll_set" =>
       /\ status' = PREVIEW_STATUS_READY
       /\ rom_name' = roms[arg[Main]].name
       /\ station_id' = roms[arg[Main]].station_id
       /\ image_data' = image_data
       /\ ret'[Main] = 0
  /\ pc[Main] = "ll_nf" =>
       /\ status' = PREVIEW_STATUS_NOT_FOUND
       /\ image_data' = 0
       /\ ret'[Main] = -1
  /\ (pc[Main] = "ll_entry" /\ arg[Main] = NullRom) =>
       /\ ret'[Main] = -1
       /\ slot' = slot
       /\ heap' = heap

\* C11: load_local of a non-null entry has released the held image before it
\* tries a candidate, examines the recorded path and then the cache locations
\* in their fixed order, stops at the first that parses and then returns 0
\* with status ready and the entry's name and station in the slot, or, when
\* none parsed, returns -1 with status not_found and no image; with a NULL
\* entry it returns -1 and changes neither the slot nor any image.
C11_LoadLocal == []C11_Inv /\ [][C11_Return]_vars

\* The third candidate was kept after the first two failed, and the image held
\* before the call has been freed.
C11_Witness ==
  /\ pc[Main] = "ll_set"
  /\ Len(tried[Main]) = 3
  /\ tried[Main][3].parsed
  /\ \E i \in Images : heap[i] = "freed"

\* The calls of progress_cb, of rom_preview_fetch_online and the results of
\* the latter that the batch has logged.
BatchProgress == SelectSeq(batch_log, LAMBDA e : e.ev = "progress")
BatchFetches == SelectSeq(batch_log, LAMBDA e : e.ev = "fetch")
BatchResults == SelectSeq(batch_log, LAMBDA e : e.ev = "result")

\* The store indices below n whose entry belongs to the batch's station, in
\* store order.
StationEntriesBelow(n) ==
  SelectSeq([j \in 1 .. (n - 1) |-> j],
            LAMBDA j : roms[j].station_id = batch.station_id)

\* A batch that was given a callback has cleared the flag and looked up its
\* station.
InBatch == lastOp = "batch_fetch" /\ pc[Main] # "bf_reset"

\* C12: in a batch with a callback, the calls of progress_cb so far are one per
\* entry of the station the loop has finished with, in store order, numbered
\* 1, 2, 3, ... with the same total, and no number exceeds the total; no
\* fetch is made for an entry of another station.
C12_Progress ==
  (InBatch /\ batch.cb) =>
    LET pr == BatchProgress
        done == StationEntriesBelow(batch.i)
    IN /\ Len(pr) = Len(done)
       /\ \A k \in 1 .. Len(pr) :
            /\ pr[k].rom = done[k]
            /\ pr[k].current = k
            /\ pr[k].total = batch.total
            /\ pr[k].current <= pr[k].total
       /\ \A k \in 1 .. Len(BatchFetches) :
            roms[BatchFetches[k].rom].station_id = batch.station_id

\* The number of fetches of the batch that returned 0.
BatchSuccesses == Len(SelectSeq(BatchResults, LAMBDA e : e.ok))

\* The count the batch keeps, and returns, is the number of its fetches that
\* succeeded.
C13_Count ==
  /\ InBatch => batch.downloaded = BatchSuccesses
  /\ (InBatch /\ pc[Main] = "idle") => ret[Main] = BatchSuccesses

\* A fetch is started only for an entry without a cache file, and a batch for
\* a station rom_station_get does not return ends at once with 0.
C13_Step ==
  /\ (pc[Main] = "bf_loop" /\ pc'[Main] = "fo_entry") =>
       (cache[arg'[Main]] = "absent" /\ ~rom_preview_cache_exists(arg'[Main]))
  /\ (/\ pc[Main] = "bf_reset" /\ pc'[Main] # "bf_reset"
      /\ ~rom_station_get(batch.station_id)) =>
       /\ pc'[Main] = "idle"
       /\ ret'[Main] = 0
       /\ batch_log' = << >>

\* C13: batch_fetch calls fetch_online (the only place a probe or a download
\* is made) only for entries whose cache file does not exist; its count and
\* return value are the number of fetch_online calls of this batch that
\* returned 0, cached entries not included; for an out-of-range or disabled
\* station it returns 0 having made no callback and no fetch.
C13_BatchCount == []C13_Count /\ [][C13_Step]_vars

\* A batch has returned 1: an entry whose cache file existed was reported
\* without a fetch, another was fetched with success.
C13_Witness ==
  /\ InBatch /\ pc[Main] = "idle"
  /\ ret[Main] = 1
  /\ \E k \in 1 .. Len(BatchProgress) :
       \A j \in 1 .. Len(BatchFetches) :
         BatchFetches[j].rom # BatchProgress[k].rom

\* The positions of the batch's log where rom_preview_batch_cancel was called
\* after the batch had cleared the flag.
CancelPoints == { k \in 1 .. Len(batch_log) : batch_log[k].ev = "cancel" }

\* The entry whose fetch was under way at position k of the log: fetched
\* before k, its result not yet logged.
InProgressAt(k, r) ==
  /\ \E f \in 1 .. (k - 1) : batch_log[f] = FetchEvent(r)
  /\ \A f \in 1 .. (k - 1) :
       ~(batch_log[f].ev = "result" /\ batch_log[f].rom = r)

\* After a cancel no fetch is started, and only the entry that was being
\* fetched is completed and reported; the batch returns its successes.
C14_Stops ==
  /\ \A k \in CancelPoints :
       \A j \in (k + 1) .. Len(batch_log) :
         /\ batch_log[j].ev # "fetch"
         /\ batch_log[j].ev \in { "result", "progress" } =>
              InProgressAt(k, batch_log[j].rom)
  /\ (InBatch /\ pc[Main] = "idle" /\ CancelPoints # {}) =>
       ret[Main] = BatchSuccesses

\* The first step of a batch leaves the flag clear.
C14_Cleared ==
  (pc[Main] = "bf_reset" /\ pc'[Main] # "bf_reset") => batch_cancel' = 0

\* C14: once batch_cancel was called in a batch that has cleared the flag, the
\* batch starts no further fetch and reports no further entry except the one
\* whose fetch was under way, and it returns the number of fetches that
\* succeeded; the first step of every batch clears the flag.
C14_Cancel == []C14_Stops /\ [][C14_Cleared]_vars

\* A batch cancelled during the fetch of its first entry has returned after
\* that fetch, leaving a later entry of the station unprocessed.
C14_Witness ==
  /\ InBatch /\ pc[Main] = "idle"
  /\ \E k \in CancelPoints : \E j \in (k + 1) .. Len(batch_log) :
       batch_log[j].ev = "result"
  /\ \E r \in batch.i .. Len(roms) : roms[r].station_id = batch.station_id

\* The entries of rs that station id does not own, in the order of rs.
EntriesOfOthers(rs, id) == SelectSeq(rs, LAMBDA e : e.station_id # id)

\* The character sequence text occurs in name, letter case ignored.
Contains(name, text) ==
  \E off \in 0 .. (Len(name) - Len(text)) :
    \A k \in 1 .. Len(text) :
      (name[off + k] \in { "A", "a" }) <=> (text[k] \in { "A", "a" })

\* The view v holds, in store order, exactly the entries of the store rs of
\* the station the filter names, if it names one, whose display name
\* contains the text, if there is one.
ViewIs(v, rs, filter, text) ==
  /\ \A k \in 1 .. Len(v) : v[k] \in 1 .. Len(rs)
  /\ \A k \in 1 .. Len(v) : \A l \in 1 .. Len(v) : k < l => v[k] < v[l]
  /\ \A j \in 1 .. Len(rs) :
       (\E k \in 1 .. Len(v) : v[k] = j)
         <=> /\ filter < 0 \/ rs[j].station_id = filter
             /\ text = << >> \/ Contains(Chars[rs[j].name], text)

\* The view holds exactly the entries of the store rs that pass the filters.
ViewRebuilt(v, rs) == ViewIs(v, rs, browse_station_filter, search_filter)

\* C15: rom_station_remove(id) on an enabled slot returns 0, leaves in the
\* store exactly the entries of the other stations, in their order, disables
\* the slot and rebuilds the view, which then shows no entry of id; on an id
\* out of range or a slot that is not enabled it returns -1 and leaves the
\* registry, the store and the view as they were.
C15_Remove ==
  [][\A id \in StationArgs :
       rom_station_remove(id) =>
         IF id < ROM_MAX_STATIONS /\ SlotEnabled(stations, id)
           THEN /\ ret'[Main] = 0
                /\ roms' = EntriesOfOthers(roms, id)
                /\ ~SlotEnabled(stations', id)
                /\ \A i \in StationIds \ { id } : stations'[i] = stations[i]
                /\ ViewRebuilt(filtered_roms', roms')
                /\ \A k \in 1 .. Len(filtered_roms') :
                     roms'[filtered_roms'[k]].station_id # id
           ELSE /\ ret'[Main] = -1
                /\ UNCHANGED << stations, station_count, saved, roms, view >>
    ]_vars

\* Station 0, which owned two of the three entries, has just been removed.
C15_Witness ==
  /\ pc[Main] = "idle"
  /\ ops = 1
  /\ ret[Main] = 0
  /\ ~stations[0].enabled
  /\ Len(roms) = 1
  /\ roms[1].station_id = 1

\* C16: rom_station_update(id, rec) returns -1 and leaves the registry as it
\* was when id is out of range or the slot is not enabled; otherwise it
\* returns 0 and the slot holds rec.
C16_Update ==
  [][\A id \in StationArgs : \A rec \in StationRecords :
       rom_station_update(id, rec) =>
         IF id >= ROM_MAX_STATIONS \/ ~SlotEnabled(stations, id)
           THEN /\ ret'[Main] = -1
                /\ UNCHANGED << stations, station_count, saved >>
           ELSE /\ ret'[Main] = 0
                /\ stations'[id] = rec
    ]_vars

\* C17: between operations, every enabled station's id is the index of its
\* slot.
C17_IdIsSlot ==
  pc[Main] = "idle" =>
    \A i \in StationIds : stations[i].enabled => stations[i].id = i

\* Every entry of the store references an enabled station.
EntriesReferenceEnabled ==
  \A j \in 1 .. Len(roms) : rom_station_get(roms[j].station_id)

\* rom_station_add hands out no slot that an entry of the store references.
AddsUnreferencedSlot ==
  \A path \in Paths :
    rom_station_add(path, CoreOf(path)) /\ ret'[Main] >= 0 =>
      \A j \in 1 .. Len(roms) : roms[j].station_id # ret'[Main]

\* C18: between operations, every entry of the store references an enabled
\* station, and rom_station_add never returns a slot that an entry still
\* references.
C18_Referenced ==
  /\ [](pc[Main] = "idle" => EntriesReferenceEnabled)
  /\ [][AddsUnreferencedSlot]_vars

\* The enabled slots of the registry.
EnabledSlots ==
  { i \in 0 .. (ROM_MAX_STATIONS - 1) : SlotEnabled(stations, i) }

\* The k-th enabled slot in ascending order, counting from 0.
KthEnabled(k) ==
  CHOOSE i \in EnabledSlots : Cardinality({ j \in EnabledSlots : j < i }) = k

\* rom_station_count is the number of enabled slots, and
\* rom_station_get_by_index(k) is the k-th of them for 0 <= k < count and
\* NULL otherwise.
CountAndOrdinal ==
  /\ rom_station_count = Cardinality(EnabledSlots)
  /\ rom_station_count \in 0 .. ROM_MAX_STATIONS
  /\ \A k \in -1 .. ROM_MAX_STATIONS :
       rom_station_get_by_index(k) =
         IF 0 <= k /\ k < rom_station_count THEN KthEnabled(k) ELSE -1

\* rom_station_add fails exactly when every slot is enabled, and then
\* leaves the registry as it was.
AddFailsWhenFull ==
  \A path \in Paths :
    rom_station_add(path, CoreOf(path)) =>
      /\ ret'[Main] = -1 <=> EnabledSlots = 0 .. (ROM_MAX_STATIONS - 1)
      /\ ret'[Main] = -1 => UNCHANGED << stations, station_count, saved >>

\* C19: between operations, rom_station_count is the number of enabled
\* slots, rom_station_get_by_index enumerates them in ascending order, and
\* rom_station_add fails, changing nothing, exactly when no slot is disabled.
C19_Count ==
  /\ [](pc[Main] = "idle" => CountAndOrdinal)
  /\ [][AddFailsWhenFull]_vars

\* The entries of the store rs attributed to station id.
EntriesOf(rs, id) == { j \in 1 .. Len(rs) : rs[j].station_id = id }

\* The first step of rom_scan_station(id): for an enabled station the store
\* keeps exactly the entries of the other stations, in their order; otherwise
\* -1 is returned and the store and the view stay as they were.
ScanPurges ==
  pc[Main] = "ss_begin" /\ pc'[Main] # "ss_begin" =>
    IF rom_station_get(scan.station_id)
      THEN roms' = EntriesOfOthers(roms, scan.station_id)
      ELSE ret'[Main] = -1 /\ UNCHANGED << roms, view >>

\* The walk only appends to the store.
ScanAppends ==
  pc[Main] = "ss_walk" /\ pc'[Main] = "ss_walk" /\ roms' # roms =>
    /\ Len(roms') = Len(roms) + 1
    /\ SubSeq(roms', 1, Len(roms)) = roms

\* The last step of rom_scan_station(id): the view is rebuilt, the value
\* returned is the number of entries attributed to id, and these are the
\* files under the station's rom_path, whatever the store held before.
ScanReturnsCount ==
  pc[Main] = "ss_walk" /\ pc'[Main] # "ss_walk" =>
    LET id == scan.station_id
        files == Tree[stations[id].rom_path]
    IN /\ roms' = roms
       /\ ViewRebuilt(filtered_roms', roms')
       /\ ret'[Main] = Cardinality(EntriesOf(roms', id))
       /\ ret'[Main] = Len(files)
       /\ { roms'[j].name : j \in EntriesOf(roms', id) }
            = { files[k] : k \in 1 .. Len(files) }

\* C20: rom_scan_station(id) on an enabled station removes the entries of id,
\* keeps the others in order, appends the entries it discovers, rebuilds the
\* view and returns the number of entries then attributed to id, which with
\* their names depends on the tree alone; for an id out of range or a slot
\* that is not enabled it returns -1 and leaves the store and the view.
C20_Scan == [][ScanPurges /\ ScanAppends /\ ScanReturnsCount]_vars

\* C21: once the cancel flag is raised during the walk of rom_scan_station,
\* the next step of the scan is its return: no further directory is opened
\* and no further file examined, the store is left as it is, the value
\* returned is the number of entries the walk added, not an error, and the
\* view is rebuilt.
C21_ScanCancel ==
  [][pc[Main] = "ss_walk" /\ scan_cancel_flag # 0 =>
       /\ pc'[Main] # "ss_walk"
       /\ roms' = roms
       /\ ret'[Main] >= 0
       /\ ret'[Main] = Cardinality(EntriesOf(roms, scan.station_id))
       /\ ViewRebuilt(filtered_roms', roms')
    ]_vars

\* The scan was cancelled after it added one entry, with the subdirectory
\* and a file still to come.
C21_Witness ==
  /\ pc[Main] = "ss_walk"
  /\ scan_cancel_flag = 1
  /\ Len(scan.todo) = 2
  /\ stations[scan.station_id].rom_count = 1

\* rom_scan_all is about to scan a station: the progress is the share of
\* the enabled stations it has completed, in percent, rounded down.
ProgressIsShare ==
  pc[Main] = "sa_loop" /\ pc'[Main] = "ss_begin" =>
    scan_progress' = (Len(scan.done) * 100) \div Cardinality(EnabledSlots)

\* rom_scan_all returns: the progress is 100.
ProgressAtReturn ==
  pc[Main] = "sa_loop" /\ pc'[Main] = "idle" => scan_progress' = 100

\* C22: the scan progress is always within 0 .. 100; when rom_scan_all is
\* about to scan a station it is the number of stations completed over the
\* number of enabled stations, in percent, rounded down; and it is 100 when
\* rom_scan_all returns.
C22_Progress ==
  /\ [](scan_progress \in 0 .. 100)
  /\ [][ProgressIsShare /\ ProgressAtReturn]_vars

\* The sum of the counts of the stations scanned.
RECURSIVE SumCounts(_)
SumCounts(done) ==
  IF done = << >> THEN 0 ELSE Head(done).count + SumCounts(Tail(done))

\* C23: when rom_scan_all returns with the cancel flag not raised, it has
\* scanned the enabled stations once each in ascending slot order, whatever
\* a station's walk met (no directory, an allocation failure), each
\* station's count is the number of its entries in the store, and the value
\* returned is the sum of the counts.
C23_ScanAll ==
  [][pc[Main] = "sa_loop" /\ pc'[Main] = "idle" /\ scan_cancel_flag = 0 =>
       LET done == scan.done
       IN /\ Len(done)
               = Cardinality({ i \in StationIds : stations[i].enabled })
          /\ \A k \in 1 .. Len(done) : done[k].id = KthEnabled(k - 1)
          /\ \A k \in 1 .. Len(done) :
               done[k].count = Cardinality(EntriesOf(roms, done[k].id))
          /\ ret'[Main] = SumCounts(done)
    ]_vars

\* rom_scan_all is about to return after it scanned two stations, the first
\* of which yielded fewer entries than the two files under its rom_path: a
\* growth of the store failed.
C23_Witness ==
  /\ pc[Main] = "sa_loop"
  /\ scan.i = ROM_MAX_STATIONS
  /\ scan_cancel_flag = 0
  /\ Len(scan.done) = 2
  /\ scan.done[1].count < 2
  /\ stations[scan.done[1].id].rom_path = "p"

\* A step that rebuilds the view: a filter is set, a scan ends or a station
\* is removed.
RebuildStep ==
  \/ BrowseInit
  \/ FilterSet
  \/ FilterClear
  \/ ScanEnd
  \/ \E id \in StationArgs : rom_station_remove(id) /\ ret'[Main] = 0

\* Extending the search text by a character never lengthens the list that
\* rebuild_filtered_list makes of the store.
CountShrinksWithText ==
  \A text \in Texts : \A ch \in { "A", "a", "B", "b" } :
    \A filter \in { -1 } \cup StationIds :
      Len(FilteredList(roms, filter, Append(text, ch)))
        <= Len(FilteredList(roms, filter, text))

C25_CursorReset ==
  [][BrowseInit \/ FilterSet \/ FilterClear =>
       iFirstEntry' = 0 /\ iSelectedEntry' = 0]_vars

\* C26: between operations, when the view is not empty, the first visible
\* index and the selected index both lie in 0 .. length - 1.
C26_CursorInView ==
  pc[Main] = "idle" /\ Len(filtered_roms) > 0 =>
    /\ iFirstEntry \in 0 .. (Len(filtered_roms) - 1)
    /\ iSelectedEntry \in 0 .. (Len(filtered_roms) - 1)

\* The selection lies in the visible window.
InWindow ==
  Len(filtered_roms) > 0 =>
    iFirstEntry <= iSelectedEntry /\ iSelectedEntry < iFirstEntry + osd_size

\* The first visible index changes only when the new selection lies outside
\* the window that was visible.
FirstMovesWhenNeeded ==
  Len(filtered_roms) > 0 /\ iFirstEntry' # iFirstEntry =>
    \/ iSelectedEntry' < iFirstEntry
    \/ iSelectedEntry' >= iFirstEntry + osd_size

\* C27: for a fixed page size and a view that is not empty, after any
\* sequence of scroll operations from a reset cursor, first <= selected <
\* first + page size, and first changes only in a step whose selection
\* would otherwise leave the visible window.
C27_Window == []InWindow /\ [][FirstMovesWhenNeeded]_vars

\* The window of two lines has moved to the end of a view of five entries.
C27_Witness ==
  /\ Len(filtered_roms) = 5
  /\ osd_size = 2
  /\ iFirstEntry = 3
  /\ iSelectedEntry = 4

\* next with an entry of the view selected: from the last entry to
\* first = 0, selected = 0, from any other entry one entry down.
NextWraps ==
  rom_browse_scan(SCANF_NEXT) /\ iSelectedEntry < Len(filtered_roms) =>
    IF iSelectedEntry = Len(filtered_roms) - 1
      THEN iFirstEntry' = 0 /\ iSelectedEntry' = 0
      ELSE iSelectedEntry' = iSelectedEntry + 1

\* previous with an entry of the view selected: from the first entry to the
\* last, with first = max(0, length - page size), from any other entry one
\* up.
PrevWraps ==
  rom_browse_scan(SCANF_PREV) /\ iSelectedEntry < Len(filtered_roms) =>
    IF iSelectedEntry = 0
      THEN /\ iSelectedEntry' = Len(filtered_roms) - 1
           /\ iFirstEntry' = IF Len(filtered_roms) - osd_size > 0
                               THEN Len(filtered_roms) - osd_size
                               ELSE 0
      ELSE iSelectedEntry' = iSelectedEntry - 1

\* C28: in a view that is not empty, next with the last entry selected moves
\* the cursor to first = 0, selected = 0, previous with the first entry
\* selected selects the last entry with first = max(0, length - page size),
\* and in every other position next and previous move the selection by one.
C28_Wrap == [][NextWraps /\ PrevWraps]_vars

\* The last of four entries is selected in a window of three lines.
C28_Witness ==
  /\ Len(filtered_roms) = 4
  /\ osd_size = 3
  /\ iFirstEntry = 1
  /\ iSelectedEntry = 3

\* C29: between operations, rom_browse_select yields nothing (0, with path,
\* core_path and label empty) when the view is empty or the selected index
\* is outside it; otherwise it yields the path and the display name of the
\* entry at the selected index, and the core search name of that entry's
\* station, which is empty when the station has no core_path.
C29_Select ==
  pc[Main] = "idle" =>
    IF Len(filtered_roms) = 0
         \/ iSelectedEntry \notin 0 .. (Len(filtered_roms) - 1)
      THEN /\ Selection.found = 0
           /\ Selection.path = << >>
           /\ Selection.core_path = ""
           /\ Selection.label = ""
      ELSE LET e == roms[filtered_roms[iSelectedEntry + 1]]
               launcher == stations[e.station_id].core_path
           IN /\ Selection.found = 1
              /\ Selection.path = e.path
              /\ Selection.label = e.name
              /\ launcher = "" => Selection.core_path = ""
              /\ launcher # "" => Selection.core_path = << "_", launcher >>

\* rom_browse_select has returned 1 for the third entry of the view, whose
\* station has no core_path.
C29_Witness ==
  /\ pc[Main] = "idle"
  /\ ops = 0
  /\ ret[Main] = 1
  /\ iSelectedEntry = 2
  /\ Len(filtered_roms) = 3
  /\ Selection.label = "b"
  /\ Selection.core_path = ""

\* rom_browse_select has returned 0 with the cursor beyond the only entry
\* left in the view.
C29_WitnessEmpty ==
  /\ pc[Main] = "idle"
  /\ Len(filtered_roms) = 1
  /\ iSelectedEntry = 2
  /\ ret[Main] = 0
  /\ Selection.found = 0

\* The sequences v and w hold the same elements the same number of times.
IsPermutation(v, w) ==
  /\ Len(v) = Len(w)
  /\ \A k \in 1 .. Len(v) :
       Cardinality({ l \in 1 .. Len(v) : v[l] = v[k] })
         = Cardinality({ l \in 1 .. Len(w) : w[l] = v[k] })

\* C30: rom_sort(mode) changes only the order of the view: the view stays a
\* permutation of what it was, the store keeps its entries and their order,
\* the stations, the filters and the cursor stay as they were, and the list
\* that rebuild_filtered_list would make right after the sort is the one in
\* store order that it would have made before.
C30_Sort ==
  [][Sort =>
       /\ IsPermutation(filtered_roms', filtered_roms)
       /\ roms' = roms
       /\ stations' = stations
       /\ filterv' = filterv
       /\ << iFirstEntry, iSelectedEntry >>' = << iFirstEntry, iSelectedEntry >>
       /\ FilteredList(roms', browse_station_filter', search_filter')
            = FilteredList(roms, browse_station_filter, search_filter)
       /\ ViewIs(FilteredList(roms', browse_station_filter', search_filter'),
                 roms, browse_station_filter, search_filter)]_vars

\* rom_sort has left the view of the whole store in an order that is not the
\* store's.
C30_Witness ==
  /\ pc[Main] = "idle"
  /\ roms = Roms
  /\ ops > 0
  /\ filtered_roms = << 1, 3, 2 >>

\* The number of entries of the store attributed to the station id.
EntriesAttributed(id) ==
  Cardinality({ r \in 1 .. Len(roms) : roms[r].station_id = id })

\* C31: the store never holds more than ROM_MAX_TOTAL entries, nor more than
\* ROM_MAX_PER_STATION entries attributed to one station, whatever the
\* sizes of the directories scanned.
C31_Limits ==
  /\ Len(roms) <= ROM_MAX_TOTAL
  /\ \A id \in StationIds : EntriesAttributed(id) <= ROM_MAX_PER_STATION

\* Between two calls of the caller, the view holds references into the
\* store as it is now.
ViewFresh == pc[Main] = "idle" => ViewRebuilt(filtered_roms, roms)

\* The next step of thread t reads the entry its argument points to:
\* rom->station_id (rom_preview.cpp line 241), rom->has_preview (line 90) or
\* rom->name and rom->station_id (lines 100-101, 132-133).
ReadsEntryNext(t) ==
  /\ arg[t] # NullRom
  /\ pc[t] \in { "fo_entry", "ll_load", "ll_set" }

\* C32: no reference to an entry taken before the store changes is read
\* after the change: between calls the view refers to the store as it is,
\* and no step of a scan changes the store while a background thread is
\* about to read the entry it was launched with.
C32_NoStaleReference ==
  /\ []ViewFresh
  /\ [][roms' # roms => \A t \in Threads : ~ReadsEntryNext(t)]_vars

\* A thread that finds the cancel flag raised at its entry goes straight to
\* the end of fetch_thread_func: nothing is probed or downloaded, and the
\* preview slot, the images and the cache files are left alone, also by the
\* step that ends the thread.
SkipsWhenCancelled ==
  \A t \in Threads :
    /\ (ThreadStart(t) /\ fetch_cancel # 0) =>
         /\ pc'[t] = "t_fin"
         /\ log'[t] = << >>
         /\ << slot, heap, cache >>' = << slot, heap, cache >>
    /\ ThreadFinish(t) => << slot, heap, cache >>' = << slot, heap, cache >>

\* What the fetch of a thread has recorded when rom_preview_fetch_online
\* returns at position at: nothing when the station lookup failed, a failed
\* probe, a download that succeeded (followed by rom_preview_load_local), or
\* one failed download for every category.
RanToEnd(events, at) ==
  \/ events = << >> /\ at = "fo_entry"
  \/ events = << ProbeEvent(FALSE) >> /\ at = "fo_probe"
  \/ /\ Len(events) >= 2
     /\ events[1] = ProbeEvent(TRUE)
     /\ \A k \in 2 .. Len(events) :
          events[k] = DownloadEvent(Categories[k - 1], k = Len(events))
     /\ at \in { "ll_set", "ll_nf" }
  \/ /\ events = << ProbeEvent(TRUE) >>
                    \o [k \in 1 .. Len(Categories) |->
                          DownloadEvent(Categories[k], FALSE)]
     /\ at = "fo_nf"

\* A thread inside rom_preview_fetch_online leaves it only when the fetch
\* has run to its end, whatever fetch_cancel holds by then.
RunsToEnd ==
  \A t \in Threads :
    (InFetchOnline(t) /\ pc'[t] = "t_fin") => RanToEnd(log'[t], pc[t])

\* pthread_join returns in rom_preview_fetch_async only when no thread is
\* running any more.
JoinAfterEnd ==
  (pc[Main] = "fa_join" /\ pc'[Main] # "fa_join") =>
    \A t \in Threads : ~Running(t)

\* C33: a thread that sees fetch_cancel raised when it starts makes no probe
\* and no download and leaves the preview slot as it is; a thread that has
\* passed that test runs rom_preview_fetch_online to its end even if
\* fetch_cancel is raised meanwhile, and the join of the rom_preview_fetch_async
\* that raised it returns only after that.
C33_Cancel == [][SkipsWhenCancelled /\ RunsToEnd /\ JoinAfterEnd]_vars

\* A thread found the flag raised by the next rom_preview_fetch_async, which
\* waits in its join, and went to its end without a fetch.
C33_Witness ==
  /\ pc[Main] = "fa_join"
  /\ fetch_cancel = 1
  /\ pc[fetch_thread] = "t_fin"
  /\ ret[fetch_thread] = 0
  /\ log[fetch_thread] = << >>
  /\ status = PREVIEW_STATUS_LOADING

\* A thread past its test goes on with its downloads while the next
\* rom_preview_fetch_async has raised fetch_cancel and waits in its join.
C33_WitnessRunning ==
  /\ pc[Main] = "fa_join"
  /\ fetch_cancel = 1
  /\ pc[fetch_thread] = "fo_wget"
  /\ Len(Downloads(fetch_thread)) = 2

\* A raised cancel flag is lowered only where a scan invocation starts: by
\* rom_scan_all at its first line, or by a rom_scan_station that the caller,
\* not rom_scan_all, has called.
LoweredAtStartOnly ==
  (scan_cancel_flag # 0 /\ scan_cancel_flag' = 0) =>
    \/ pc[Main] = "idle"
    \/ pc[Main] = "ss_begin" /\ stk[Main] = << "idle" >>

\* A scan invocation starts with the flag lowered, whatever it held.
StartLowers ==
  /\ CallScanAll => scan_cancel_flag' = 0
  /\ (ScanBegin /\ stk[Main] = << "idle" >>
        /\ rom_station_get(scan.station_id)) => scan_cancel_flag' = 0

\* C34: the cancel flag is lowered only at the start of a scan invocation,
\* so that a rom_scan_cancel during rom_scan_all is never lost and stops it,
\* and one made while no scan runs does not stop the next scan.
C34_CancelFlag == [][LoweredAtStartOnly /\ StartLowers]_vars

\* a is below b as values of uint32_t.
Below(a, b) == a.hi < b.hi \/ (a.hi = b.hi /\ a.lo < b.lo)

\* The values of the entries of the view w never go down.
NonDecreasing(w, Value(_)) ==
  \A k, l \in 1 .. Len(w) :
    k < l => ~Below(Value(roms[w[l]]), Value(roms[w[k]]))

\* The values of the entries of the view w never go up.
NonIncreasing(w, Value(_)) ==
  \A k, l \in 1 .. Len(w) :
    k < l => ~Below(Value(roms[w[k]]), Value(roms[w[l]]))

\* The view after rom_sort by date or by size is in the order of the stored
\* values.
SortedByValue ==
  LET Date(e) == e.date
      Size(e) == e.size
  IN /\ rom_sort(ROM_SORT_DATE_ASC) => NonDecreasing(filtered_roms', Date)
     /\ rom_sort(ROM_SORT_DATE_DESC) => NonIncreasing(filtered_roms', Date)
     /\ rom_sort(ROM_SORT_SIZE_ASC) => NonDecreasing(filtered_roms', Size)
     /\ rom_sort(ROM_SORT_SIZE_DESC) => NonIncreasing(filtered_roms', Size)

\* C35: after rom_sort by date or by size the view is ordered by the stored
\* 32-bit values, never decreasing for the ascending modes and never
\* increasing for the descending ones, whatever the values are.
C35_SortByValue == [][SortedByValue]_vars

\* The tokens of a list: its longest runs of characters other than spaces.
TokensOf(list) ==
  { SubSeq(list, ij[1], ij[2]) :
      ij \in { ab \in (1 .. Len(list)) \X (1 .. Len(list)) :
                 /\ ab[1] <= ab[2]
                 /\ \A k \in ab[1] .. ab[2] : list[k] # " "
                 /\ ab[1] = 1 \/ list[ab[1] - 1] = " "
                 /\ ab[2] = Len(list) \/ list[ab[2] + 1] = " " } }

\* A string lowercased and capped at 8 characters.
LowerCapped(str) ==
  [i \in 1 .. (IF Len(str) > EXT_COMPARED THEN EXT_COMPARED ELSE Len(str)) |->
     IF str[i] = "A" THEN "a" ELSE IF str[i] = "B" THEN "b" ELSE str[i]]

\* What follows the last dot of a name that has one.
AfterLastDot(name) ==
  LET dots == { i \in 1 .. Len(name) : name[i] = "." }
      last == CHOOSE i \in dots : \A j \in dots : j <= i
  IN SubSeq(name, last + 1, Len(name))

\* The list is empty, or the name has a dot and what follows its last dot,
\* lowercased and capped, is a token of the list, lowercased and capped.
Matches(name, list) ==
  \/ list = << >>
  \/ /\ \E i \in 1 .. Len(name) : name[i] = "."
     /\ \E token \in TokensOf(list) :
          LowerCapped(token) = LowerCapped(AfterLastDot(name))

\* C36: match_extension answers 1 exactly when the list is empty, or the
\* file name has a dot and what follows its last dot, lowercased and capped
\* at 8 characters, equals a token of the list lowercased and capped at 8
\* characters.
C36_MatchExtension ==
  matching.result # -1 =>
    (matching.result = 1 <=> Matches(matching.filename, matching.extensions))

\* C37: between operations, the rom_count of every enabled station is the
\* number of entries of the store attributed to the id its record holds
\* (and so the total rom_preview_batch_fetch reports, which is that
\* rom_count, is the number of entries it will process).
C37_CountMatchesStore ==
  pc[Main] = "idle" =>
    \A i \in StationIds :
      stations[i].enabled =>
        stations[i].rom_count = EntriesAttributed(stations[i].id)

\* A step that lengthens the store has written its entries inside the block
\* the store is kept in, and below the capacity recorded for it.
AppendsBelowCapacity ==
  Len(roms') > Len(roms) =>
    Len(roms') <= rom_capacity' /\ Len(roms') <= roms_size'

\* The walk passes a matching file that yields no entry: the store is as it
\* was, and so is its capacity.
FailedGrowthKeeps ==
  ( /\ pc[Main] = "ss_walk"
    /\ scan.todo # << >>
    /\ ~Head(scan.todo).dir
    /\ scan'.todo = Tail(scan.todo)
    /\ Len(roms') = Len(roms) ) =>
      roms' = roms /\ rom_capacity' = rom_capacity /\ roms_size' = roms_size

\* C38: in every state the store holds at most rom_capacity entries, every
\* append writes inside the allocated block and below the capacity, whatever
\* the order of rom_catalog_init, rom_catalog_free, rom_catalog_load,
\* rom_station_add and the scans, and a growth that fails leaves the entries,
\* their count and the capacity as they were.
C38_Capacity ==
  /\ [](Len(roms) <= rom_capacity)
  /\ [][AppendsBelowCapacity /\ FailedGrowthKeeps]_vars

\* The view is no longer than the store and each of its elements is an entry
\* of the store.
ViewWithinStore ==
  /\ Len(filtered_roms) <= Len(roms)
  /\ \A k \in 1 .. Len(filtered_roms) : filtered_roms[k] \in 1 .. Len(roms)

\* rom_catalog_free leaves an empty view, on which rom_browse_select
\* returns 0.
EmptyAfterFree ==
  CatalogFree => filtered_roms' = << >> /\ (Selection.found)' = 0

\* C39: whenever the caller is in no catalog function the view is no longer
\* than the store and every element of it is an entry of the store, and
\* after rom_catalog_free the view is empty and rom_browse_select returns 0.
C39_ViewWithinStore ==
  /\ [](pc[Main] = "idle" => ViewWithinStore)
  /\ [][EmptyAfterFree]_vars
====
